---- MODULE Spec2Model ----
(***************************************************************************)
(* Entitlement ledger of the event-management backend: attendance,         *)
(* distribution and undo of entitlements for single participants and for   *)
(* groups, and the operations that change the cap of an entitlement.       *)
(*                                                                         *)
(* The participant document carries the fields the route handlers use:     *)
(*   entitlements        - template based instances (routes/participants.js*)
(*                         and the /api/entitlements routes)               *)
(*   customEntitlements  - custom instances (models/Participant.js, the    *)
(*                         group routes and the routes in routes/settings) *)
(*   fixed               - the fixed sub-documents entitlements.beer and   *)
(*                         entitlements.lunch of models/Participant.js,    *)
(*                         read by the group routes as                     *)
(*                         participant.entitlements[entitlementType]       *)
(***************************************************************************)
EXTENDS Integers, Sequences, FiniteSets, TLC

(* ------------------------------ bounds --------------------------------- *)

\* number of requests that stamp a new Date() before the model stops the clock
MaxOps == 4

\* largest absolute value of a requested count
MaxCount == 2

(* --------------------------- fixed universe ---------------------------- *)

Null == "null"

NoSetting == -100

Pids == {"P1", "P2"}

UnknownPid == "P9"

GroupIds == {"G1"}

\* a group that still lists a participant who was deleted
SquadId == "G2"

Counts == (-1) .. MaxCount


SettingValues == {1, 3}


VARIABLES participants, settings, groups, templates, admins, now, last

vars == <<participants, settings, groups, templates, admins, now, last>>

(* ------------------------------ helpers -------------------------------- *)

\* String.prototype.toLowerCase on the names that occur
toLowerCase(s) ==
  CASE s = "Beer" -> "beer"
    [] s = "BEER" -> "beer"
    [] s = "Lunch" -> "lunch"
    [] s = "Wine" -> "wine"
    [] s = "Soft Drinks" -> "soft drinks"
    [] s = "Soft Drink" -> "soft drink"
    [] s = "Special Meal" -> "special meal"
    [] s = "Voucher" -> "voucher"
    [] s = "Jersey" -> "jersey"
    [] s = "Supper" -> "supper"
    [] s = "Snack" -> "snack"
    [] s = "Breakfast" -> "breakfast"
    [] s = "Evening Refreshment" -> "evening refreshment"
    [] OTHER -> s

\* parseInt on a JSON integer
parseInt(c) == c

Min2(a, b) == IF a <= b THEN a ELSE b

Max2(a, b) == IF a >= b THEN a ELSE b

\* n pushes of the same value (the loop runs zero times when n <= 0)
Pushes(x, n) == [i \in 1 .. Max2(n, 0) |-> x]

\* Array.prototype.splice(start, deleteCount): the array that remains
splice(arr, start, deleteCount) ==
  LET len == Len(arr)
      actualStart == IF start < 0 THEN Max2(len + start, 0) ELSE Min2(start, len)
      dc == Min2(Max2(deleteCount, 0), len - actualStart)
  IN  SubSeq(arr, 1, actualStart) \o SubSeq(arr, actualStart + dc + 1, len)

\* Array.prototype.findIndex with a case-insensitive name match; 0 when none
findIndexByName(arr, name) ==
  LET hits == {i \in 1 .. Len(arr) : toLowerCase(arr[i].name) = toLowerCase(name)}
  IN  IF hits = {} THEN 0 ELSE CHOOSE i \in hits : \A j \in hits : i <= j

\* role -> permissions
rolePermissions(role) ==
  CASE role = "admin" ->
         [canMarkAttendance |-> TRUE, canDistributeFood |-> TRUE, canUndoActions |-> TRUE,
          canManageUsers |-> TRUE, canManageSettings |-> TRUE]
    [] role = "gate" ->
         [canMarkAttendance |-> TRUE, canDistributeFood |-> FALSE, canUndoActions |-> FALSE,
          canManageUsers |-> FALSE, canManageSettings |-> FALSE]
    [] OTHER ->
         [canMarkAttendance |-> FALSE, canDistributeFood |-> TRUE, canUndoActions |-> FALSE,
          canManageUsers |-> FALSE, canManageSettings |-> FALSE]

Actors == {"admin1", "food1", "gate1"}

requirePermissionOfToken(actor, permission) ==
  /\ actor \in DOMAIN admins
  /\ admins[actor].permissions[permission]

\* authenticateToken followed by requirePermission(permission)
requirePermission(actor, permission) ==
  /\ actor \in DOMAIN admins
  /\ admins[actor].isActive
  /\ admins[actor].permissions[permission]

getSettingKeyForEntitlement(name) ==
  CASE toLowerCase(name) = "beer" -> "beerLimit"
    [] toLowerCase(name) = "soft drinks" -> "softDrinkLimit"
    [] toLowerCase(name) = "soft drink" -> "softDrinkLimit"
    [] OTHER -> Null

getEntitlementLimit(entitlementName, templateMaxCount) ==
  LET settingKey == getSettingKeyForEntitlement(entitlementName)
  IN  IF settingKey = Null THEN templateMaxCount
      ELSE IF settings[settingKey] # NoSetting THEN settings[settingKey]
      ELSE templateMaxCount

(* --------------------------- entitlement core -------------------------- *)

NewInstance(templateId, name, isCountable, maxCount) ==
  [templateId |-> templateId, name |-> name, isCountable |-> isCountable,
   maxCount |-> maxCount, given |-> 0, givenAt |-> <<>>, givenBy |-> <<>>,
   undoneBy |-> Null, undoneAt |-> 0, lastUndoneCount |-> 0]

\* grant with the limit test off by one (>= where the handler has >)
grantOffByOne(ent, requestedCount, cap, t, by) ==
  IF ent.isCountable
  THEN IF ent.given + requestedCount >= cap
       THEN [code |-> "ENTITLEMENT_LIMIT_EXCEEDED", ent |-> ent]
       ELSE [code |-> "OK",
             ent |-> [ent EXCEPT !.given = @ + requestedCount,
                                 !.givenAt = @ \o Pushes(t, requestedCount),
                                 !.givenBy = @ \o Pushes(by, requestedCount)]]
  ELSE IF ent.given >= cap
       THEN [code |-> "ENTITLEMENT_ALREADY_GIVEN", ent |-> ent]
       ELSE [code |-> "OK",
             ent |-> [ent EXCEPT !.given = cap,
                                 !.givenAt = Append(@, t),
                                 !.givenBy = Append(@, by)]]

\* the countable / non-countable branch of a distribute handler
grant(ent, requestedCount, cap, t, by) ==
  IF ent.isCountable
  THEN IF ent.given + requestedCount > cap
       THEN [code |-> "ENTITLEMENT_LIMIT_EXCEEDED", ent |-> ent]
       ELSE [code |-> "OK",
             ent |-> [ent EXCEPT !.given = @ + requestedCount,
                                 !.givenAt = @ \o Pushes(t, requestedCount),
                                 !.givenBy = @ \o Pushes(by, requestedCount)]]
  ELSE IF ent.given >= cap
       THEN [code |-> "ENTITLEMENT_ALREADY_GIVEN", ent |-> ent]
       ELSE [code |-> "OK",
             ent |-> [ent EXCEPT !.given = cap,
                                 !.givenAt = Append(@, t),
                                 !.givenBy = Append(@, by)]]

(* ------------------------------ responses ------------------------------ *)

\* what the handler answers: the route, the code of the JSON body and, for the
\* group routes, the per-member results and errors
Response(op, code) == [op |-> op, code |-> code, results |-> <<>>, errors |-> <<>>]

\* the template catalog after initialization, in the order find() returns it
Templates ==
  << [id |-> "T1", name |-> "Beer", isCountable |-> TRUE, maxCount |-> 2,
      defaultForPlayers |-> TRUE, defaultForParticipants |-> TRUE, isActive |-> TRUE],
     [id |-> "T2", name |-> "Lunch", isCountable |-> FALSE, maxCount |-> 1,
      defaultForPlayers |-> TRUE, defaultForParticipants |-> TRUE, isActive |-> TRUE],
     [id |-> "T3", name |-> "Soft Drinks", isCountable |-> TRUE, maxCount |-> 3,
      defaultForPlayers |-> TRUE, defaultForParticipants |-> TRUE, isActive |-> TRUE],
     [id |-> "T4", name |-> "Special Meal", isCountable |-> FALSE, maxCount |-> 1,
      defaultForPlayers |-> TRUE, defaultForParticipants |-> FALSE, isActive |-> TRUE],
     [id |-> "T5", name |-> "Voucher", isCountable |-> FALSE, maxCount |-> 1,
      defaultForPlayers |-> FALSE, defaultForParticipants |-> TRUE, isActive |-> TRUE],
     [id |-> "T6", name |-> "Jersey", isCountable |-> FALSE, maxCount |-> 1,
      defaultForPlayers |-> FALSE, defaultForParticipants |-> FALSE, isActive |-> TRUE],
     [id |-> "T7", name |-> "Wine", isCountable |-> TRUE, maxCount |-> 1,
      defaultForPlayers |-> TRUE, defaultForParticipants |-> TRUE, isActive |-> FALSE] >>

Init ==
  /\ participants =
       [p \in Pids |->
          [isPlayer |-> (p = "P1"),
           email |-> IF p = "P1" THEN "p1@event" ELSE "p2@event",
           qrCode |-> <<"QR", p>>,
           isPresent |-> FALSE, attendanceTime |-> 0, attendanceMarkedBy |-> Null,
           entitlements |-> << NewInstance("T1", "Beer", TRUE, 2),
                               NewInstance("T2", "Lunch", FALSE, 1) >>,
           customEntitlements |-> << NewInstance(Null, "Beer", TRUE, 2),
                                     NewInstance(Null, "Lunch", FALSE, 1) >>,
           fixed |-> [beer |-> [given |-> 0, givenAt |-> <<>>, givenBy |-> <<>>],
                      lunch |-> [given |-> FALSE, givenAt |-> 0, givenBy |-> Null]],
           entitlementHistory |-> <<>>,
           groupEntitlementHistory |-> <<>>,
           groups |-> << [groupId |-> "G1", groupName |-> "Team"],
                         [groupId |-> SquadId, groupName |-> "Squad"] >>]]
  /\ settings = [k \in {"beerLimit", "softDrinkLimit"} |-> NoSetting]
  /\ groups = [g \in GroupIds \cup {SquadId} |->
                 IF g = SquadId
                 THEN [name |-> "Squad", isActive |-> TRUE,
                       members |-> <<"P1", UnknownPid, "P2">>]
                 ELSE [name |-> "Team", isActive |-> TRUE, members |-> <<"P1", "P2">>]]
  /\ admins = [a \in Actors |->
                 LET role == CASE a = "admin1" -> "admin" [] a = "gate1" -> "gate" [] OTHER -> "food"
                 IN  [role |-> role, isActive |-> TRUE, permissions |-> rolePermissions(role)]]
  /\ templates = Templates
  /\ now = 1
  /\ last = Response("none", "OK")

(* ------------------------------ attendance ----------------------------- *)

\* POST /:participantId/attendance
MarkAttendance(pid, actor) ==
  /\ UNCHANGED <<settings, groups, templates, admins>>
  /\ IF ~requirePermission(actor, "canMarkAttendance")
     THEN /\ last' = Response("markAttendance", "PERMISSION_DENIED")
          /\ UNCHANGED <<participants, now>>
     ELSE IF pid \notin DOMAIN participants
     THEN /\ last' = Response("markAttendance", "PARTICIPANT_NOT_FOUND")
          /\ UNCHANGED <<participants, now>>
     ELSE IF participants[pid].isPresent
     THEN /\ last' = Response("markAttendance", "ATTENDANCE_ALREADY_MARKED")
          /\ UNCHANGED <<participants, now>>
     ELSE /\ now < MaxOps
          /\ participants' = [participants EXCEPT ![pid].isPresent = TRUE,
                                                  ![pid].attendanceTime = now,
                                                  ![pid].attendanceMarkedBy = actor]
          /\ now' = now + 1
          /\ last' = Response("markAttendance", "OK")

\* undo of attendance that also retracts what the participant was given
UndoAttendanceRetracting(pid, actor) ==
  /\ UNCHANGED <<settings, groups, templates, admins, now>>
  /\ IF ~requirePermission(actor, "canUndoActions")
     THEN /\ last' = Response("undoAttendance", "PERMISSION_DENIED")
          /\ UNCHANGED participants
     ELSE IF pid \notin DOMAIN participants
     THEN /\ last' = Response("undoAttendance", "PARTICIPANT_NOT_FOUND")
          /\ UNCHANGED participants
     ELSE IF ~participants[pid].isPresent
     THEN /\ last' = Response("undoAttendance", "ATTENDANCE_NOT_MARKED")
          /\ UNCHANGED participants
     ELSE /\ participants' =
               [participants EXCEPT
                  ![pid].isPresent = FALSE,
                  ![pid].attendanceTime = 0,
                  ![pid].attendanceMarkedBy = Null,
                  ![pid].entitlements =
                     [k \in 1 .. Len(@) |->
                        [@[k] EXCEPT !.given = 0, !.givenAt = <<>>, !.givenBy = <<>>]]]
          /\ last' = Response("undoAttendance", "OK")

\* DELETE /:participantId/attendance
UndoAttendance(pid, actor) ==
  /\ UNCHANGED <<settings, groups, templates, admins, now>>
  /\ IF ~requirePermission(actor, "canUndoActions")
     THEN /\ last' = Response("undoAttendance", "PERMISSION_DENIED")
          /\ UNCHANGED participants
     ELSE IF pid \notin DOMAIN participants
     THEN /\ last' = Response("undoAttendance", "PARTICIPANT_NOT_FOUND")
          /\ UNCHANGED participants
     ELSE IF ~participants[pid].isPresent
     THEN /\ last' = Response("undoAttendance", "ATTENDANCE_NOT_MARKED")
          /\ UNCHANGED participants
     ELSE /\ participants' = [participants EXCEPT ![pid].isPresent = FALSE,
                                                  ![pid].attendanceTime = 0,
                                                  ![pid].attendanceMarkedBy = Null]
          /\ last' = Response("undoAttendance", "OK")

(* ------------------- routes/participants.js: ledger -------------------- *)

HistoryEntry(name, action, count, t, by) ==
  [entitlementName |-> name, action |-> action, count |-> count,
   performedAt |-> t, performedBy |-> by]

\* the distribute handler with the lookup of the instance moved before the
\* test of isPresent
DistributeEntitlementInstanceFirst(pid, entitlementName, count, actor) ==
  /\ UNCHANGED <<settings, groups, templates, admins>>
  /\ IF ~requirePermission(actor, "canDistributeFood")
     THEN /\ last' = Response("distribute", "PERMISSION_DENIED")
          /\ UNCHANGED <<participants, now>>
     ELSE IF pid \notin DOMAIN participants
     THEN /\ last' = Response("distribute", "PARTICIPANT_NOT_FOUND")
          /\ UNCHANGED <<participants, now>>
     ELSE LET i == findIndexByName(participants[pid].entitlements, entitlementName) IN
          IF i = 0
          THEN /\ last' = Response("distribute", "ENTITLEMENT_NOT_FOUND")
               /\ UNCHANGED <<participants, now>>
          ELSE IF ~participants[pid].isPresent
          THEN /\ last' = Response("distribute", "PARTICIPANT_NOT_PRESENT")
               /\ UNCHANGED <<participants, now>>
          ELSE LET entitlement == participants[pid].entitlements[i]
                   requestedCount == parseInt(count)
                   effectiveMaxCount == getEntitlementLimit(entitlement.name, entitlement.maxCount)
                   r == grant(entitlement, requestedCount, effectiveMaxCount, now, actor)
               IN  IF r.code # "OK"
                   THEN /\ last' = Response("distribute", r.code)
                        /\ UNCHANGED <<participants, now>>
                   ELSE /\ now < MaxOps
                        /\ participants' =
                             [participants EXCEPT
                                ![pid].entitlements[i] = r.ent,
                                ![pid].entitlementHistory =
                                   Append(@, HistoryEntry(entitlement.name, "distributed",
                                                          requestedCount, now, actor))]
                        /\ now' = now + 1
                        /\ last' = Response("distribute", "OK")

\* POST /:participantId/entitlement
DistributeEntitlement(pid, entitlementName, count, actor) ==
  /\ UNCHANGED <<settings, groups, templates, admins>>
  /\ IF ~requirePermission(actor, "canDistributeFood")
     THEN /\ last' = Response("distribute", "PERMISSION_DENIED")
          /\ UNCHANGED <<participants, now>>
     ELSE IF pid \notin DOMAIN participants
     THEN /\ last' = Response("distribute", "PARTICIPANT_NOT_FOUND")
          /\ UNCHANGED <<participants, now>>
     ELSE IF ~participants[pid].isPresent
     THEN /\ last' = Response("distribute", "PARTICIPANT_NOT_PRESENT")
          /\ UNCHANGED <<participants, now>>
     ELSE LET i == findIndexByName(participants[pid].entitlements, entitlementName) IN
          IF i = 0
          THEN /\ last' = Response("distribute", "ENTITLEMENT_NOT_FOUND")
               /\ UNCHANGED <<participants, now>>
          ELSE LET entitlement == participants[pid].entitlements[i]
                   requestedCount == parseInt(count)
                   effectiveMaxCount == getEntitlementLimit(entitlement.name, entitlement.maxCount)
                   r == grant(entitlement, requestedCount, effectiveMaxCount, now, actor)
               IN  IF r.code # "OK"
                   THEN /\ last' = Response("distribute", r.code)
                        /\ UNCHANGED <<participants, now>>
                   ELSE /\ now < MaxOps
                        /\ participants' =
                             [participants EXCEPT
                                ![pid].entitlements[i] = r.ent,
                                ![pid].entitlementHistory =
                                   Append(@, HistoryEntry(entitlement.name, "distributed",
                                                          requestedCount, now, actor))]
                        /\ now' = now + 1
                        /\ last' = Response("distribute", "OK")

\* the branch of an undo handler that follows the lookup of the instance
undo(ent, count, t, by) ==
  IF ent.given = 0
  THEN [code |-> "NOTHING_TO_UNDO", ent |-> ent, undoCount |-> 0]
  ELSE LET undoCount == Min2(parseInt(count), ent.given)
           e1 == IF ent.isCountable
                 THEN [ent EXCEPT !.given = @ - undoCount,
                                  !.givenAt = splice(@, -undoCount, undoCount),
                                  !.givenBy = splice(@, -undoCount, undoCount)]
                 ELSE [ent EXCEPT !.given = 0, !.givenAt = <<>>, !.givenBy = <<>>]
       IN  [code |-> "OK",
            ent |-> [e1 EXCEPT !.undoneBy = by, !.undoneAt = t, !.lastUndoneCount = undoCount],
            undoCount |-> undoCount]

\* the undo handler with the presence test of the distribute handler added
UndoEntitlementIfPresent(pid, entitlementName, count, actor) ==
  /\ UNCHANGED <<settings, groups, templates, admins>>
  /\ IF ~requirePermission(actor, "canUndoActions")
     THEN /\ last' = Response("undo", "PERMISSION_DENIED")
          /\ UNCHANGED <<participants, now>>
     ELSE IF pid \notin DOMAIN participants
     THEN /\ last' = Response("undo", "PARTICIPANT_NOT_FOUND")
          /\ UNCHANGED <<participants, now>>
     ELSE IF ~participants[pid].isPresent
     THEN /\ last' = Response("undo", "PARTICIPANT_NOT_PRESENT")
          /\ UNCHANGED <<participants, now>>
     ELSE LET i == findIndexByName(participants[pid].entitlements, entitlementName) IN
          IF i = 0
          THEN /\ last' = Response("undo", "ENTITLEMENT_NOT_FOUND")
               /\ UNCHANGED <<participants, now>>
          ELSE LET entitlement == participants[pid].entitlements[i]
                   r == undo(entitlement, count, now, actor)
               IN  IF r.code # "OK"
                   THEN /\ last' = Response("undo", r.code)
                        /\ UNCHANGED <<participants, now>>
                   ELSE /\ now < MaxOps
                        /\ participants' =
                             [participants EXCEPT
                                ![pid].entitlements[i] = r.ent,
                                ![pid].entitlementHistory =
                                   Append(@, HistoryEntry(entitlement.name, "undone",
                                                          r.undoCount, now, actor))]
                        /\ now' = now + 1
                        /\ last' = Response("undo", "OK")

\* DELETE /:participantId/entitlement
UndoEntitlement(pid, entitlementName, count, actor) ==
  /\ UNCHANGED <<settings, groups, templates, admins>>
  /\ IF ~requirePermission(actor, "canUndoActions")
     THEN /\ last' = Response("undo", "PERMISSION_DENIED")
          /\ UNCHANGED <<participants, now>>
     ELSE IF pid \notin DOMAIN participants
     THEN /\ last' = Response("undo", "PARTICIPANT_NOT_FOUND")
          /\ UNCHANGED <<participants, now>>
     ELSE LET i == findIndexByName(participants[pid].entitlements, entitlementName) IN
          IF i = 0
          THEN /\ last' = Response("undo", "ENTITLEMENT_NOT_FOUND")
               /\ UNCHANGED <<participants, now>>
          ELSE LET entitlement == participants[pid].entitlements[i]
                   r == undo(entitlement, count, now, actor)
               IN  IF r.code # "OK"
                   THEN /\ last' = Response("undo", r.code)
                        /\ UNCHANGED <<participants, now>>
                   ELSE /\ now < MaxOps
                        /\ participants' =
                             [participants EXCEPT
                                ![pid].entitlements[i] = r.ent,
                                ![pid].entitlementHistory =
                                   Append(@, HistoryEntry(entitlement.name, "undone",
                                                          r.undoCount, now, actor))]
                        /\ now' = now + 1
                        /\ last' = Response("undo", "OK")

(* ------------- /api/entitlements routes (unnamed/part_001) ------------- *)

\* POST /participant/:participantId/distribute
EntitlementsDistribute(pid, entitlementName, count, actor) ==
  /\ UNCHANGED <<settings, groups, templates, admins>>
  /\ IF ~requirePermission(actor, "canDistributeFood")
     THEN /\ last' = Response("entDistribute", "PERMISSION_DENIED")
          /\ UNCHANGED <<participants, now>>
     ELSE IF pid \notin DOMAIN participants
     THEN /\ last' = Response("entDistribute", "PARTICIPANT_NOT_FOUND")
          /\ UNCHANGED <<participants, now>>
     ELSE IF ~participants[pid].isPresent
     THEN /\ last' = Response("entDistribute", "PARTICIPANT_NOT_PRESENT")
          /\ UNCHANGED <<participants, now>>
     ELSE LET i == findIndexByName(participants[pid].entitlements, entitlementName) IN
          IF i = 0
          THEN /\ last' = Response("entDistribute", "ENTITLEMENT_NOT_FOUND")
               /\ UNCHANGED <<participants, now>>
          ELSE LET entitlement == participants[pid].entitlements[i]
                   requestedCount == parseInt(count)
                   r == grant(entitlement, requestedCount, entitlement.maxCount, now, actor)
               IN  IF r.code # "OK"
                   THEN /\ last' = Response("entDistribute", r.code)
                        /\ UNCHANGED <<participants, now>>
                   ELSE /\ now < MaxOps
                        /\ participants' = [participants EXCEPT ![pid].entitlements[i] = r.ent]
                        /\ now' = now + 1
                        /\ last' = Response("entDistribute", "OK")

\* DELETE /participant/:participantId/undo/:entitlementName
EntitlementsUndo(pid, entitlementName, count, actor) ==
  /\ UNCHANGED <<settings, groups, templates, admins>>
  /\ IF ~requirePermission(actor, "canUndoActions")
     THEN /\ last' = Response("entUndo", "PERMISSION_DENIED")
          /\ UNCHANGED <<participants, now>>
     ELSE IF pid \notin DOMAIN participants
     THEN /\ last' = Response("entUndo", "PARTICIPANT_NOT_FOUND")
          /\ UNCHANGED <<participants, now>>
     ELSE LET i == findIndexByName(participants[pid].entitlements, entitlementName) IN
          IF i = 0
          THEN /\ last' = Response("entUndo", "ENTITLEMENT_NOT_FOUND")
               /\ UNCHANGED <<participants, now>>
          ELSE LET r == undo(participants[pid].entitlements[i], count, now, actor)
               IN  IF r.code # "OK"
                   THEN /\ last' = Response("entUndo", "ENTITLEMENT_NOTHING_TO_UNDO")
                        /\ UNCHANGED <<participants, now>>
                   ELSE /\ now < MaxOps
                        /\ participants' = [participants EXCEPT ![pid].entitlements[i] = r.ent]
                        /\ now' = now + 1
                        /\ last' = Response("entUndo", "OK")

(* ------------- custom entitlement routes (routes/settings.js) ---------- *)

\* POST /participant/:participantId/distribute  (the body carries a message, no code)
CustomDistribute(pid, entitlementName, count, actor) ==
  /\ UNCHANGED <<settings, groups, templates, admins>>
  /\ IF ~requirePermission(actor, "canDistributeFood")
     THEN /\ last' = Response("customDistribute", "PERMISSION_DENIED")
          /\ UNCHANGED <<participants, now>>
     ELSE IF pid \notin DOMAIN participants
     THEN /\ last' = Response("customDistribute", "PARTICIPANT_NOT_FOUND")
          /\ UNCHANGED <<participants, now>>
     ELSE IF ~participants[pid].isPresent
     THEN /\ last' = Response("customDistribute", "PARTICIPANT_NOT_PRESENT")
          /\ UNCHANGED <<participants, now>>
     ELSE LET i == findIndexByName(participants[pid].customEntitlements, entitlementName) IN
          IF i = 0
          THEN /\ last' = Response("customDistribute", "ENTITLEMENT_NOT_FOUND")
               /\ UNCHANGED <<participants, now>>
          ELSE LET entitlement == participants[pid].customEntitlements[i]
                   requestedCount == parseInt(count)
                   r == grant(entitlement, requestedCount, entitlement.maxCount, now, actor)
               IN  IF r.code # "OK"
                   THEN /\ last' = Response("customDistribute", r.code)
                        /\ UNCHANGED <<participants, now>>
                   ELSE /\ now < MaxOps
                        /\ participants' = [participants EXCEPT ![pid].customEntitlements[i] = r.ent]
                        /\ now' = now + 1
                        /\ last' = Response("customDistribute", "OK")

\* DELETE /participant/:participantId/undo/:entitlementName
CustomUndo(pid, entitlementName, count, actor) ==
  /\ UNCHANGED <<settings, groups, templates, admins>>
  /\ IF ~requirePermission(actor, "canUndoActions")
     THEN /\ last' = Response("customUndo", "PERMISSION_DENIED")
          /\ UNCHANGED <<participants, now>>
     ELSE IF pid \notin DOMAIN participants
     THEN /\ last' = Response("customUndo", "PARTICIPANT_NOT_FOUND")
          /\ UNCHANGED <<participants, now>>
     ELSE LET i == findIndexByName(participants[pid].customEntitlements, entitlementName) IN
          IF i = 0
          THEN /\ last' = Response("customUndo", "ENTITLEMENT_NOT_FOUND")
               /\ UNCHANGED <<participants, now>>
          ELSE LET r == undo(participants[pid].customEntitlements[i], count, now, actor)
               IN  IF r.code # "OK"
                   THEN /\ last' = Response("customUndo", "NOTHING_TO_UNDO")
                        /\ UNCHANGED <<participants, now>>
                   ELSE /\ now < MaxOps
                        /\ participants' = [participants EXCEPT ![pid].customEntitlements[i] = r.ent]
                        /\ now' = now + 1
                        /\ last' = Response("customUndo", "OK")

(* ------------------ group routes (routes/participants.js) -------------- *)

LegacyTypes == {"breakfast", "lunch", "beer", "eveningMeal", "specialBeverage", "specialMeal"}

isCustomEntitlement(entitlementType, entitlementName) ==
  entitlementName # Null /\ entitlementType \notin LegacyTypes

\* the group record written with the entitlement type in place of the name
GroupHistoryEntryByType(gid, entitlementType, entitlementName, count, t, by) ==
  [groupId |-> gid, groupName |-> groups[gid].name,
   entitlementName |-> entitlementType,
   entitlementType |-> IF isCustomEntitlement(entitlementType, entitlementName)
                       THEN "custom" ELSE "fixed",
   count |-> parseInt(count), distributedBy |-> by, distributedAt |-> t,
   undoneAt |-> 0, undoneBy |-> Null]

GroupHistoryEntry(gid, entitlementType, entitlementName, count, t, by) ==
  [groupId |-> gid, groupName |-> groups[gid].name,
   entitlementName |-> IF entitlementName # Null THEN entitlementName ELSE entitlementType,
   entitlementType |-> IF isCustomEntitlement(entitlementType, entitlementName)
                       THEN "custom" ELSE "fixed",
   count |-> parseInt(count), distributedBy |-> by, distributedAt |-> t,
   undoneAt |-> 0, undoneBy |-> Null]

\* body of the loop of POST /:groupId/distribute for one member; doc is the
\* participant document that findOne returned
distributeToMemberBody(doc, gid, entitlementType, entitlementName, count, t, by) ==
    LET saved(d) == [error |-> Null,
                     doc |-> [d EXCEPT !.groupEntitlementHistory =
                                Append(@, GroupHistoryEntry(gid, entitlementType,
                                                            entitlementName, count, t, by))]]
    IN
    IF isCustomEntitlement(entitlementType, entitlementName)
    THEN LET i == findIndexByName(doc.customEntitlements, entitlementName) IN
         IF i = 0 THEN [error |-> "Does not have entitlement", doc |-> doc]
         ELSE LET entitlement == doc.customEntitlements[i]
                  r == grant(entitlement, parseInt(count), entitlement.maxCount, t, by)
              IN  IF r.code = "ENTITLEMENT_LIMIT_EXCEEDED"
                  THEN [error |-> "Limit exceeded", doc |-> doc]
                  ELSE IF r.code = "ENTITLEMENT_ALREADY_GIVEN"
                  THEN [error |-> "already given", doc |-> doc]
                  ELSE saved([doc EXCEPT !.customEntitlements[i] = r.ent])
    ELSE IF entitlementType \notin DOMAIN doc.fixed
    THEN [error |-> "Not eligible", doc |-> doc]
    ELSE IF entitlementType = "beer"
    THEN LET beerLimit == IF settings["beerLimit"] # NoSetting THEN settings["beerLimit"] ELSE 2
             currentCount == doc.fixed.beer.given
             requestedCount == parseInt(count)
         IN  IF currentCount + requestedCount > beerLimit
             THEN [error |-> "Beer limit exceeded", doc |-> doc]
             ELSE saved([doc EXCEPT !.fixed.beer.given = @ + requestedCount,
                                    !.fixed.beer.givenAt = @ \o Pushes(t, requestedCount),
                                    !.fixed.beer.givenBy = @ \o Pushes(by, requestedCount)])
    ELSE IF doc.fixed[entitlementType].given
    THEN [error |-> "already given", doc |-> doc]
    ELSE saved([doc EXCEPT !.fixed[entitlementType] =
                  [given |-> TRUE, givenAt |-> t, givenBy |-> by]])

\* the loop body without the test of isPresent
distributeToAnyMember(doc, gid, entitlementType, entitlementName, count, t, by) ==
  distributeToMemberBody(doc, gid, entitlementType, entitlementName, count, t, by)

distributeToMember(doc, gid, entitlementType, entitlementName, count, t, by) ==
  IF ~doc.isPresent THEN [error |-> "Not marked present", doc |-> doc]
  ELSE distributeToMemberBody(doc, gid, entitlementType, entitlementName, count, t, by)

\* index of the latest group distribution of this group and entitlement that
\* is not undone: filter, sort by distributedAt descending, take [0]; 0 if none
latestGroupDistribution(hist, gid, targetEntitlementName) ==
  LET cand == {i \in 1 .. Len(hist) :
                 /\ hist[i].groupId = gid
                 /\ hist[i].entitlementName = targetEntitlementName
                 /\ hist[i].undoneAt = 0}
      latest == {i \in cand : \A j \in cand : hist[j].distributedAt <= hist[i].distributedAt}
  IN  IF cand = {} THEN 0 ELSE CHOOSE i \in latest : \A j \in latest : i <= j

\* body of the loop of DELETE /:groupId/undo for one member
undoForMember(doc, gid, entitlementType, entitlementName, count, t, by) ==
  LET targetEntitlementName == IF entitlementName # Null THEN entitlementName ELSE entitlementType
      h == latestGroupDistribution(doc.groupEntitlementHistory, gid, targetEntitlementName)
      marked(d) == [error |-> Null,
                    doc |-> [d EXCEPT !.groupEntitlementHistory[h].undoneAt = t,
                                      !.groupEntitlementHistory[h].undoneBy = by]]
  IN
  IF h = 0 THEN [error |-> "No recent group distribution found", doc |-> doc]
  ELSE
    LET groupDistribution == doc.groupEntitlementHistory[h] IN
    IF isCustomEntitlement(entitlementType, entitlementName)
    THEN LET i == findIndexByName(doc.customEntitlements, entitlementName) IN
         IF i = 0 \/ (i # 0 /\ doc.customEntitlements[i].given = 0)
         THEN [error |-> "Nothing to undo", doc |-> doc]
         ELSE LET entitlement == doc.customEntitlements[i]
                  undoCount == Min2(Min2(parseInt(count), entitlement.given),
                                    groupDistribution.count)
              IN  IF entitlement.isCountable
                  THEN marked([doc EXCEPT
                                 !.customEntitlements[i].given = @ - undoCount,
                                 !.customEntitlements[i].givenAt = splice(@, -undoCount, undoCount),
                                 !.customEntitlements[i].givenBy = splice(@, -undoCount, undoCount)])
                  ELSE marked([doc EXCEPT
                                 !.customEntitlements[i].given = 0,
                                 !.customEntitlements[i].givenAt = <<>>,
                                 !.customEntitlements[i].givenBy = <<>>])
    ELSE IF entitlementType \notin DOMAIN doc.fixed
    THEN [error |-> "No entitlement found", doc |-> doc]
    ELSE IF entitlementType = "beer"
    THEN LET currentCount == doc.fixed.beer.given IN
         IF currentCount = 0 THEN [error |-> "No beer to undo", doc |-> doc]
         ELSE LET undoCount == Min2(Min2(parseInt(count), currentCount),
                                    groupDistribution.count)
              IN  marked([doc EXCEPT
                            !.fixed.beer.given = @ - undoCount,
                            !.fixed.beer.givenAt = splice(@, -undoCount, undoCount),
                            !.fixed.beer.givenBy = splice(@, -undoCount, undoCount)])
    ELSE IF ~doc.fixed[entitlementType].given
    THEN [error |-> "not given", doc |-> doc]
    ELSE marked([doc EXCEPT !.fixed[entitlementType] =
                   [given |-> FALSE, givenAt |-> 0, givenBy |-> Null]])

\* for (const member of group.members) { try { ... } catch { errors.push } }
\* acc = [parts, results, errors]; step(doc) is the loop body for one member
RECURSIVE forEachMember(_, _, _, _, _, _, _, _, _)
forEachMember(members, k, acc, isUndo, gid, entitlementType, entitlementName, count, by) ==
  IF k > Len(members) THEN acc
  ELSE
    LET m == members[k]
        r == IF m \notin DOMAIN acc.parts
             THEN [error |-> "Participant not found", doc |-> Null]
             ELSE IF isUndo
             THEN undoForMember(acc.parts[m], gid, entitlementType, entitlementName, count, now, by)
             ELSE distributeToMember(acc.parts[m], gid, entitlementType, entitlementName, count, now, by)
        acc2 == IF r.error # Null
                THEN [acc EXCEPT !.errors = Append(@, <<m, r.error>>)]
                ELSE [parts |-> [acc.parts EXCEPT ![m] = r.doc],
                      results |-> Append(acc.results, m),
                      errors |-> acc.errors]
    IN  forEachMember(members, k + 1, acc2, isUndo, gid, entitlementType, entitlementName, count, by)

\* the response of a group route without its errors list
GroupResponseWithoutErrors(op, acc) ==
  [op |-> op, code |-> "OK", results |-> acc.results, errors |-> <<>>]

GroupResponse(op, acc) ==
  [op |-> op, code |-> "OK", results |-> acc.results, errors |-> acc.errors]

\* POST /:groupId/distribute
GroupDistribute(gid, entitlementType, entitlementName, count, actor) ==
  /\ UNCHANGED <<settings, groups, templates, admins>>
  /\ IF ~requirePermission(actor, "canDistributeFood")
     THEN /\ last' = Response("groupDistribute", "PERMISSION_DENIED")
          /\ UNCHANGED <<participants, now>>
     ELSE IF entitlementType = Null
             \/ (entitlementName = Null /\ entitlementType \notin LegacyTypes)
     THEN /\ last' = Response("groupDistribute", "ENTITLEMENT_TYPE_REQUIRED")
          /\ UNCHANGED <<participants, now>>
     ELSE IF gid \notin DOMAIN groups \/ (gid \in DOMAIN groups /\ ~groups[gid].isActive)
     THEN /\ last' = Response("groupDistribute", "GROUP_NOT_FOUND")
          /\ UNCHANGED <<participants, now>>
     ELSE LET acc == forEachMember(groups[gid].members, 1,
                                   [parts |-> participants, results |-> <<>>, errors |-> <<>>],
                                   FALSE, gid, entitlementType, entitlementName, count, actor)
          IN  /\ last' = GroupResponse("groupDistribute", acc)
              /\ IF acc.results = <<>>
                 THEN UNCHANGED <<participants, now>>
                 ELSE /\ now < MaxOps
                      /\ participants' = acc.parts
                      /\ now' = now + 1

\* DELETE /:groupId/undo
GroupUndo(gid, entitlementType, entitlementName, count, actor) ==
  /\ UNCHANGED <<settings, groups, templates, admins>>
  /\ IF ~requirePermission(actor, "canUndoActions")
     THEN /\ last' = Response("groupUndo", "PERMISSION_DENIED")
          /\ UNCHANGED <<participants, now>>
     ELSE IF gid \notin DOMAIN groups \/ (gid \in DOMAIN groups /\ ~groups[gid].isActive)
     THEN /\ last' = Response("groupUndo", "GROUP_NOT_FOUND")
          /\ UNCHANGED <<participants, now>>
     ELSE LET acc == forEachMember(groups[gid].members, 1,
                                   [parts |-> participants, results |-> <<>>, errors |-> <<>>],
                                   TRUE, gid, entitlementType, entitlementName, count, actor)
          IN  /\ last' = GroupResponse("groupUndo", acc)
              /\ IF acc.results = <<>>
                 THEN UNCHANGED <<participants, now>>
                 ELSE /\ now < MaxOps
                      /\ participants' = acc.parts
                      /\ now' = now + 1

(* ----------------------- operations that change a cap ------------------ *)

\* PUT /api/settings/:settingName (findOneAndUpdate with upsert)
UpdateSetting(settingName, settingValue, actor) ==
  /\ UNCHANGED <<participants, groups, templates, admins, now>>
  /\ IF ~requirePermission(actor, "canManageSettings")
     THEN /\ last' = Response("updateSetting", "PERMISSION_DENIED")
          /\ UNCHANGED settings
     ELSE /\ settings' = [settings EXCEPT ![settingName] = settingValue]
          /\ last' = Response("updateSetting", "OK")

participantFilter(participantType, doc) ==
  CASE participantType = "players" -> doc.isPlayer
    [] participantType = "participants" -> ~doc.isPlayer
    [] OTHER -> TRUE

\* Participant.updateMany(... "entitlements.$[elem].maxCount" ...) with the
\* case-insensitive name filter
updateManyMaxCount(parts, participantType, name, maxCount) ==
  [p \in DOMAIN parts |->
     IF participantFilter(participantType, parts[p])
     THEN [parts[p] EXCEPT !.entitlements =
             [i \in 1 .. Len(@) |->
                IF toLowerCase(@[i].name) = toLowerCase(name)
                THEN [@[i] EXCEPT !.maxCount = maxCount] ELSE @[i]]]
     ELSE parts[p]]

\* POST /bulk-update-entitlement-limits
BulkUpdateEntitlementLimits(entitlementName, newMaxCount, participantType, actor) ==
  /\ UNCHANGED <<settings, groups, templates, admins, now>>
  /\ IF ~requirePermission(actor, "canManageSettings")
     THEN /\ last' = Response("bulkUpdate", "PERMISSION_DENIED")
          /\ UNCHANGED participants
     ELSE LET maxCount == parseInt(newMaxCount) IN
          IF maxCount < 0
          THEN /\ last' = Response("bulkUpdate", "INVALID_MAX_COUNT")
               /\ UNCHANGED participants
          ELSE /\ participants' = updateManyMaxCount(participants, participantType,
                                                     entitlementName, maxCount)
               /\ last' = Response("bulkUpdate", "OK")

\* POST /sync-entitlement-limits
SyncEntitlementLimits(participantType, actor) ==
  /\ UNCHANGED <<settings, groups, templates, admins, now>>
  /\ IF ~requirePermission(actor, "canManageSettings")
     THEN /\ last' = Response("sync", "PERMISSION_DENIED")
          /\ UNCHANGED participants
     ELSE LET step(parts, name, settingKey) ==
                IF settings[settingKey] # NoSetting
                THEN updateManyMaxCount(parts, participantType, name, settings[settingKey])
                ELSE parts
              p1 == step(participants, "Beer", "beerLimit")
              p2 == step(p1, "Soft Drinks", "softDrinkLimit")
              p3 == step(p2, "Soft Drink", "softDrinkLimit")
          IN  /\ participants' = p3
              /\ last' = Response("sync", "OK")

(* ---------------------------- specifications --------------------------- *)

\* the requests <<participantId, entitlementName, count, caller>> sent to the
\* distribute route: every name and count by a caller with canDistributeFood,
\* one by a caller without it and one for an unknown participant
DistributeRequests ==
  {<<"P1", "beer", c, "food1">> : c \in Counts}
    \cup {<<"P1", "Lunch", 1, "food1">>, <<"P1", "Wine", 1, "food1">>,
          <<"P1", "beer", 1, "gate1">>, <<UnknownPid, "beer", 1, "food1">>}

\* the requests sent to the undo route
UndoRequests ==
  {<<"P1", "beer", c, "admin1">> : c \in Counts}
    \cup {<<"P1", "Lunch", 1, "admin1">>, <<"P1", "Lunch", MaxCount, "admin1">>,
          <<"P1", "Wine", 1, "admin1">>,
          <<"P1", "beer", 1, "food1">>, <<UnknownPid, "beer", 1, "admin1">>}

Next ==
  \/ MarkAttendance("P1", "gate1")
  \/ UndoAttendance("P1", "admin1")
  \/ \E rq \in DistributeRequests : DistributeEntitlement(rq[1], rq[2], rq[3], rq[4])
  \/ \E rq \in UndoRequests : UndoEntitlement(rq[1], rq[2], rq[3], rq[4])
  \/ \E v \in SettingValues : UpdateSetting("beerLimit", v, "admin1")
  \/ \E v \in {-1, MaxCount} : BulkUpdateEntitlementLimits("lunch", v, "all", "admin1")
  \/ SyncEntitlementLimits("players", "admin1")

Spec == Init /\ [][Next]_vars

\* the requests of the specification of all distribution and undo paths
\* name and count of the requests sent to each single-participant route
PathRequests == {<<"beer", 1>>, <<"Lunch", 1>>}

\* the requests <<participantId, entitlementName, count, caller>> sent to one
\* single-participant route: every participant and name by a caller that
\* holds the permission, one by a caller that does not
PathCalls(permitted, denied) ==
  {<<pid, rq[1], rq[2], permitted>> : pid \in Pids, rq \in PathRequests}
    \cup {<<"P1", "beer", 1, denied>>}

\* entitlementType, entitlementName and caller of the group requests
GroupRequests == {<<"custom", "Beer">>, <<"beer", Null>>, <<"lunch", Null>>}

GroupCalls(permitted, denied) ==
  {<<rq[1], rq[2], permitted>> : rq \in GroupRequests} \cup {<<"beer", Null, denied>>}

\* P1 checks in and out; P2 never checks in and is sent every request
NextPaths ==
  \/ MarkAttendance("P1", "gate1")
  \/ UndoAttendance("P1", "admin1")
  \/ \E rq \in PathCalls("admin1", "gate1") :
        DistributeEntitlement(rq[1], rq[2], rq[3], rq[4])
  \/ \E rq \in PathCalls("food1", "gate1") :
        EntitlementsDistribute(rq[1], rq[2], rq[3], rq[4])
  \/ \E rq \in PathCalls("admin1", "gate1") :
        CustomDistribute(rq[1], rq[2], rq[3], rq[4])
  \/ \E g \in GroupIds, rq \in GroupCalls("food1", "gate1") :
        GroupDistribute(g, rq[1], rq[2], 1, rq[3])
  \/ \E rq \in PathCalls("admin1", "food1") :
        UndoEntitlement(rq[1], rq[2], rq[3], rq[4])
  \/ \E rq \in PathCalls("admin1", "food1") :
        EntitlementsUndo(rq[1], rq[2], rq[3], rq[4])
  \/ \E rq \in PathCalls("admin1", "food1") :
        CustomUndo(rq[1], rq[2], rq[3], rq[4])
  \/ \E g \in GroupIds, rq \in GroupCalls("admin1", "food1") :
        GroupUndo(g, rq[1], rq[2], 1, rq[3])

SpecPaths == Init /\ [][NextPaths]_vars

(* ------------------------------- claims -------------------------------- *)

Range(seq) == {seq[k] : k \in 1 .. Len(seq)}

\* every entitlement instance of a participant
Instances(pid) ==
  Range(participants[pid].entitlements) \cup Range(participants[pid].customEntitlements)

\* the effective cap of an instance: the Setting mapped to its name when that
\* Setting exists, the stored maxCount otherwise
CapOf(e) ==
  IF toLowerCase(e.name) = "beer" /\ settings["beerLimit"] # NoSetting
  THEN settings["beerLimit"]
  ELSE IF toLowerCase(e.name) \in {"soft drinks", "soft drink"}
          /\ settings["softDrinkLimit"] # NoSetting
  THEN settings["softDrinkLimit"]
  ELSE e.maxCount

\* index of the instance a request names, 0 when the participant or the
\* instance does not exist
Target(pid, name) ==
  IF pid \in Pids THEN findIndexByName(participants[pid].entitlements, name) ELSE 0

\* C1: in every reachable state every entitlement instance has
\* given = length(givenAt) = length(givenBy)
C1_GivenMatchesLists ==
  \A pid \in Pids : \A e \in Instances(pid) :
     e.given = Len(e.givenAt) /\ e.given = Len(e.givenBy)

\* C2: in every reachable state every entitlement instance has
\* 0 <= given <= effective cap
C2_GivenWithinCap ==
  \A pid \in Pids : \A e \in Instances(pid) : 0 <= e.given /\ e.given <= CapOf(e)

\* C3: a distribute call for a countable instance of a present participant
\* succeeds exactly when given + requested <= effective cap; on success given
\* grows by requested and requested (timestamp, grantor) pairs are appended at
\* the tails of givenAt and givenBy; on rejection the documents are unchanged
C3_CountableDistribute ==
  [][last'.op = "distribute" =>
       \A rq \in DistributeRequests :
         LET pid == rq[1]
             c == rq[3]
             a == rq[4]
             i == Target(pid, rq[2])
         IN  ( /\ requirePermission(a, "canDistributeFood")
               /\ i # 0
               /\ participants[pid].isPresent
               /\ participants[pid].entitlements[i].isCountable
               /\ DistributeEntitlement(pid, rq[2], c, a) )
             => LET e == participants[pid].entitlements[i]
                    f == participants'[pid].entitlements[i]
                IN  IF e.given + c <= CapOf(e)
                    THEN /\ last'.code = "OK"
                         /\ f.given = e.given + c
                         /\ c >= 0 => /\ f.givenAt = e.givenAt \o [k \in 1 .. c |-> now]
                                      /\ f.givenBy = e.givenBy \o [k \in 1 .. c |-> a]
                    ELSE /\ last'.code = "ENTITLEMENT_LIMIT_EXCEEDED"
                         /\ participants' = participants
    ]_vars

\* C3 witness (Scenario A): Beer with cap 2 was granted once (given = 1, one
\* pair, one history entry) and a further request was rejected for the limit
C3_Witness ==
  /\ last.op = "distribute" /\ last.code = "ENTITLEMENT_LIMIT_EXCEEDED"
  /\ LET e == participants["P1"].entitlements[1]
     IN  /\ e.isCountable /\ CapOf(e) = 2
         /\ e.given = 1 /\ Len(e.givenAt) = 1 /\ Len(e.givenBy) = 1
  /\ Len(participants["P1"].entitlementHistory) = 1
  /\ participants["P1"].entitlementHistory[1].action = "distributed"
  /\ participants["P1"].entitlementHistory[1].count = 1

\* C4: a non-countable instance is a two-state machine: a distribute succeeds
\* only when given < cap, sets given to the cap and appends one pair; once it
\* is granted every distribute is rejected as already given until an undo,
\* which resets given to 0 and empties givenAt and givenBy
C4_TwoStateMachine ==
  [][/\ last'.op = "distribute" =>
          \A rq \in DistributeRequests :
            LET pid == rq[1]
                a == rq[4]
                i == Target(pid, rq[2])
            IN  ( /\ requirePermission(a, "canDistributeFood")
                  /\ i # 0
                  /\ participants[pid].isPresent
                  /\ ~participants[pid].entitlements[i].isCountable
                  /\ DistributeEntitlement(pid, rq[2], rq[3], a) )
                => LET e == participants[pid].entitlements[i]
                       f == participants'[pid].entitlements[i]
                   IN  /\ last'.code = "OK" =>
                             /\ e.given < CapOf(e)
                             /\ f.given = CapOf(e)
                             /\ f.givenAt = Append(e.givenAt, now)
                             /\ f.givenBy = Append(e.givenBy, a)
                       /\ e.givenAt # <<>> => last'.code = "ENTITLEMENT_ALREADY_GIVEN"
     /\ (last'.op = "undo" /\ last'.code = "OK") =>
          \A rq \in UndoRequests :
            LET pid == rq[1]
                i == Target(pid, rq[2])
            IN  ( /\ i # 0
                  /\ ~participants[pid].entitlements[i].isCountable
                  /\ UndoEntitlement(pid, rq[2], rq[3], rq[4]) )
                => LET f == participants'[pid].entitlements[i]
                   IN  f.given = 0 /\ f.givenAt = <<>> /\ f.givenBy = <<>>
    ]_vars

\* C5: in every reachable state a non-countable instance has given = 0 or
\* given = its cap
C5_AllOrNothing ==
  \A pid \in Pids : \A e \in Instances(pid) :
     ~e.isCountable => (e.given = 0 \/ e.given = CapOf(e))

\* C6: every distribution attempt for a participant who is not marked present
\* is rejected and leaves that participant's document unchanged, for every
\* caller role and on each path: the two single-participant distribute routes,
\* the custom-entitlement distribute route and group distribution
C6_AbsentNeverReceives ==
  [][\A pid \in Pids : ~participants[pid].isPresent =>
       /\ last'.op \in {"distribute", "entDistribute", "customDistribute"} =>
            \A rq \in PathRequests, a \in Actors :
              ( \/ last'.op = "distribute" /\ DistributeEntitlement(pid, rq[1], rq[2], a)
                \/ last'.op = "entDistribute" /\ EntitlementsDistribute(pid, rq[1], rq[2], a)
                \/ last'.op = "customDistribute" /\ CustomDistribute(pid, rq[1], rq[2], a) )
              => /\ last'.code # "OK"
                 /\ participants'[pid] = participants[pid]
                 /\ requirePermission(a, "canDistributeFood")
                      => last'.code = "PARTICIPANT_NOT_PRESENT"
       /\ last'.op = "groupDistribute" =>
            \A g \in GroupIds, rq \in GroupRequests, a \in Actors :
              (pid \in Range(groups[g].members) /\ GroupDistribute(g, rq[1], rq[2], 1, a))
              => /\ participants'[pid] = participants[pid]
                 /\ pid \notin Range(last'.results)
                 /\ requirePermission(a, "canDistributeFood")
                      => <<pid, "Not marked present">> \in Range(last'.errors)
    ]_vars

\* C6 witness: a group distribution reached the present member P1 and
\* reported the absent member P2 as not marked present, P2 holding nothing
C6_Witness ==
  /\ last.op = "groupDistribute"
  /\ last.results = <<"P1">>
  /\ last.errors = << <<"P2", "Not marked present">> >>
  /\ participants["P1"].isPresent /\ ~participants["P2"].isPresent
  /\ Len(participants["P1"].groupEntitlementHistory) = 1
  /\ participants["P2"].groupEntitlementHistory = <<>>
  /\ \A e \in Instances("P2") : e.given = 0 /\ e.givenAt = <<>>

\* C7: an undo is accepted only when the instance exists and its given is
\* greater than 0; a rejected undo leaves the participant documents unchanged
C7_UndoOnlyWhenGiven ==
  [][last'.op = "undo" =>
       \A rq \in UndoRequests :
         UndoEntitlement(rq[1], rq[2], rq[3], rq[4])
         => LET i == Target(rq[1], rq[2]) IN
            /\ last'.code = "OK" =>
                  (i # 0 /\ participants[rq[1]].entitlements[i].given > 0)
            /\ last'.code # "OK" => participants' = participants
    ]_vars

\* C8: a successful undo on a countable instance takes undoCount =
\* min(requested, given) from given and removes exactly the last undoCount
\* entries of givenAt and givenBy, the earlier entries keeping their order
C8_UndoTruncatesTail ==
  [][(last'.op = "undo" /\ last'.code = "OK") =>
       \A rq \in UndoRequests :
         LET pid == rq[1]
             i == Target(pid, rq[2])
         IN  ( /\ i # 0
               /\ participants[pid].entitlements[i].isCountable
               /\ UndoEntitlement(pid, rq[2], rq[3], rq[4]) )
             => LET e == participants[pid].entitlements[i]
                    f == participants'[pid].entitlements[i]
                    undoCount == Min2(rq[3], e.given)
                IN  /\ f.given = e.given - undoCount
                    /\ Len(f.givenAt) = Len(e.givenAt) - undoCount
                    /\ Len(f.givenBy) = Len(e.givenBy) - undoCount
                    /\ \A k \in 1 .. Len(f.givenAt) : f.givenAt[k] = e.givenAt[k]
                    /\ \A k \in 1 .. Len(f.givenBy) : f.givenBy[k] = e.givenBy[k]
    ]_vars

\* C9: for a countable instance and a count N that distribute accepts,
\* distribute(N) followed by undo(N) leaves given, givenAt and givenBy as they
\* were before the distribute
C9_RoundTrip ==
  \A pid \in Pids : \A i \in 1 .. Len(participants[pid].entitlements) :
     LET e == participants[pid].entitlements[i] IN
     e.isCountable =>
       \A N \in Counts :
          LET d == grant(e, parseInt(N), getEntitlementLimit(e.name, e.maxCount), now, "food1")
              u == undo(d.ent, N, now + 1, "admin1")
              after == IF u.code = "OK" THEN u.ent ELSE d.ent
          IN  d.code = "OK" =>
                /\ after.given = e.given
                /\ after.givenAt = e.givenAt
                /\ after.givenBy = e.givenBy

\* C10: every successful undo, through the single-participant undo routes or
\* through group undo, sets undoneBy, undoneAt and lastUndoneCount on the
\* instance and appends exactly one entitlement-history entry with action
\* "undone"
C10_UndoIsRecorded ==
  [][/\ (last'.op \in {"undo", "entUndo"} /\ last'.code = "OK") =>
          \A pid \in Pids, rq \in PathRequests, a \in Actors :
            ( \/ UndoEntitlement(pid, rq[1], rq[2], a)
              \/ EntitlementsUndo(pid, rq[1], rq[2], a) )
            => LET i == Target(pid, rq[1])
                   e == participants[pid].entitlements[i]
                   f == participants'[pid].entitlements[i]
                   h == participants[pid].entitlementHistory
                   h2 == participants'[pid].entitlementHistory
               IN  /\ f.undoneBy = a
                   /\ f.undoneAt = now
                   /\ f.lastUndoneCount = Min2(rq[2], e.given)
                   /\ Len(h2) = Len(h) + 1
                   /\ SubSeq(h2, 1, Len(h)) = h
                   /\ h2[Len(h2)].action = "undone"
                   /\ h2[Len(h2)].entitlementName = e.name
     /\ last'.op = "groupUndo" =>
          \A g \in GroupIds, rq \in GroupRequests, a \in Actors :
            GroupUndo(g, rq[1], rq[2], 1, a) =>
              \A m \in Range(last'.results) :
                LET h == participants[m].entitlementHistory
                    h2 == participants'[m].entitlementHistory
                    i == IF isCustomEntitlement(rq[1], rq[2])
                         THEN findIndexByName(participants[m].customEntitlements, rq[2])
                         ELSE 0
                IN  /\ i # 0 =>
                         LET f == participants'[m].customEntitlements[i]
                         IN  f.undoneBy = a /\ f.undoneAt = now /\ f.lastUndoneCount = 1
                    /\ Len(h2) = Len(h) + 1
                    /\ h2[Len(h2)].action = "undone"
    ]_vars

\* C11: every successful distribution, on both single-participant distribute
\* routes and in group distribution, appends exactly one entry to the
\* participant's entitlement history with the entitlement name, action
\* "distributed", the count and the actor; a rejected distribution appends none
C11_DistributionIsRecorded ==
  [][/\ last'.op \in {"distribute", "entDistribute"} =>
          \A pid \in Pids, rq \in PathRequests, a \in Actors :
            ( \/ last'.op = "distribute" /\ DistributeEntitlement(pid, rq[1], rq[2], a)
              \/ last'.op = "entDistribute" /\ EntitlementsDistribute(pid, rq[1], rq[2], a) )
            => LET h == participants[pid].entitlementHistory
                   h2 == participants'[pid].entitlementHistory
               IN  IF last'.code = "OK"
                   THEN /\ Len(h2) = Len(h) + 1
                        /\ SubSeq(h2, 1, Len(h)) = h
                        /\ toLowerCase(h2[Len(h2)].entitlementName) = toLowerCase(rq[1])
                        /\ h2[Len(h2)].action = "distributed"
                        /\ h2[Len(h2)].count = rq[2]
                        /\ h2[Len(h2)].performedBy = a
                   ELSE h2 = h
     /\ last'.op = "groupDistribute" =>
          \A g \in GroupIds, rq \in GroupRequests, a \in Actors :
            GroupDistribute(g, rq[1], rq[2], 1, a) =>
              \A m \in Pids :
                LET h == participants[m].entitlementHistory
                    h2 == participants'[m].entitlementHistory
                IN  IF m \in Range(last'.results)
                    THEN /\ Len(h2) = Len(h) + 1
                         /\ h2[Len(h2)].action = "distributed"
                         /\ h2[Len(h2)].count = 1
                         /\ h2[Len(h2)].performedBy = a
                    ELSE h2 = h
    ]_vars

(* ------------- the distribute routes under a changing Setting ---------- *)

\* the requests <<participantId, entitlementName, count, caller>> sent to each
\* of the two single-participant distribute routes: Beer in every positive
\* count, a name P1 does not hold, an unknown participant, a caller without
\* canDistributeFood
RouteRequests ==
  {<<"P1", "beer", c, "food1">> : c \in 1 .. MaxCount}
    \cup {<<"P1", "Wine", 1, "food1">>, <<UnknownPid, "Wine", 1, "food1">>,
          <<"P1", "beer", 1, "gate1">>}

NextRoutes ==
  \/ MarkAttendance("P1", "gate1")
  \/ \E v \in SettingValues : UpdateSetting("beerLimit", v, "admin1")
  \/ \E rq \in RouteRequests : DistributeEntitlement(rq[1], rq[2], rq[3], rq[4])
  \/ \E rq \in RouteRequests : EntitlementsDistribute(rq[1], rq[2], rq[3], rq[4])
  \/ \E g \in GroupIds : GroupDistribute(g, "custom", "Beer", 1, "food1")

SpecRoutes == Init /\ [][NextRoutes]_vars

\* C12: every distribution enforces the effective cap of that moment: the
\* Setting mapped to the entitlement name when that Setting exists, whatever
\* the stored maxCount, and the stored maxCount otherwise; a distribution of a
\* countable entitlement is granted exactly when given + requested <= that cap
C12_EffectiveCapOnEveryPath ==
  [][/\ last'.op \in {"distribute", "entDistribute"} =>
          \A rq \in RouteRequests :
            LET pid == rq[1]
                i == Target(pid, rq[2])
            IN  ( /\ requirePermission(rq[4], "canDistributeFood")
                  /\ i # 0
                  /\ participants[pid].isPresent
                  /\ participants[pid].entitlements[i].isCountable
                  /\ \/ last'.op = "distribute"
                        /\ DistributeEntitlement(pid, rq[2], rq[3], rq[4])
                     \/ last'.op = "entDistribute"
                        /\ EntitlementsDistribute(pid, rq[2], rq[3], rq[4]) )
                => LET e == participants[pid].entitlements[i]
                   IN  (last'.code = "OK") <=> (e.given + rq[3] <= CapOf(e))
     /\ last'.op = "groupDistribute" =>
          \A g \in GroupIds :
            GroupDistribute(g, "custom", "Beer", 1, "food1") =>
              \A m \in Range(groups[g].members) :
                LET i == IF m \in Pids
                         THEN findIndexByName(participants[m].customEntitlements, "Beer")
                         ELSE 0
                IN  (i # 0 /\ participants[m].isPresent)
                    => LET e == participants[m].customEntitlements[i]
                       IN  (m \in Range(last'.results)) <=> (e.given + 1 <= CapOf(e))
    ]_vars

\* C13: a distribute request checks, in this order, that the participant
\* exists, that the participant is present and that the named instance exists,
\* and reports the first failure: an unknown participant is rejected as
\* participant-not-found, an absent participant as not-present even when the
\* instance is missing too, a present participant without the instance as
\* entitlement-not-found; each of these rejections leaves all state unchanged
C13_PreconditionOrder ==
  [][last'.op \in {"distribute", "entDistribute"} =>
       \A rq \in RouteRequests :
         ( /\ requirePermission(rq[4], "canDistributeFood")
           /\ \/ last'.op = "distribute"
                 /\ DistributeEntitlement(rq[1], rq[2], rq[3], rq[4])
              \/ last'.op = "entDistribute"
                 /\ EntitlementsDistribute(rq[1], rq[2], rq[3], rq[4]) )
         => LET pid == rq[1]
                i == Target(pid, rq[2])
            IN  /\ pid \notin Pids => last'.code = "PARTICIPANT_NOT_FOUND"
                /\ (pid \in Pids /\ ~participants[pid].isPresent)
                     => last'.code = "PARTICIPANT_NOT_PRESENT"
                /\ (pid \in Pids /\ participants[pid].isPresent /\ i = 0)
                     => last'.code = "ENTITLEMENT_NOT_FOUND"
                /\ last'.code \in {"PARTICIPANT_NOT_FOUND", "PARTICIPANT_NOT_PRESENT",
                                   "ENTITLEMENT_NOT_FOUND"}
                     => UNCHANGED <<participants, settings, groups, admins, now>>
    ]_vars

\* C13 witness: P1 is absent and holds no Wine, and a distribute request was
\* answered not-present
C13_Witness ==
  /\ last.op = "distribute"
  /\ last.code = "PARTICIPANT_NOT_PRESENT"
  /\ ~participants["P1"].isPresent
  /\ Target("P1", "Wine") = 0

\* the specification of attendance and the single-participant routes: both
\* participants check in and out, by permitted and unpermitted callers, and P1
\* is sent every distribute and undo request
NextPresence ==
  \/ \E pid \in Pids, a \in {"gate1", "food1"} : MarkAttendance(pid, a)
  \/ \E pid \in Pids, a \in {"admin1", "gate1"} : UndoAttendance(pid, a)
  \/ \E rq \in DistributeRequests : DistributeEntitlement(rq[1], rq[2], rq[3], rq[4])
  \/ \E rq \in UndoRequests : UndoEntitlement(rq[1], rq[2], rq[3], rq[4])

SpecPresence == Init /\ [][NextPresence]_vars

\* C14: undo of an entitlement does not depend on presence: an undo request
\* by a caller with canUndoActions for an instance with given > 0 succeeds
\* whether or not the participant is present, and takes min(requested, given)
\* from a countable given (sets a non-countable given to 0); in particular
\* after mark attendance, distribute, undo attendance
C14_UndoWithoutPresence ==
  [][last'.op = "undo" =>
       \A rq \in UndoRequests :
         LET pid == rq[1]
             i == Target(pid, rq[2])
         IN  ( /\ requirePermission(rq[4], "canUndoActions")
               /\ i # 0
               /\ participants[pid].entitlements[i].given > 0
               /\ UndoEntitlement(pid, rq[2], rq[3], rq[4]) )
             => LET e == participants[pid].entitlements[i]
                    f == participants'[pid].entitlements[i]
                IN  /\ last'.code = "OK"
                    /\ f.given = IF e.isCountable THEN e.given - Min2(rq[3], e.given) ELSE 0
                    /\ participants'[pid].isPresent = participants[pid].isPresent
    ]_vars

\* C14 witness: P1 checked in, received Beer, was checked out again and the
\* grant was then undone while P1 was absent
C14_Witness ==
  /\ last.op = "undo" /\ last.code = "OK"
  /\ ~participants["P1"].isPresent
  /\ participants["P1"].entitlements[1].given = 0
  /\ participants["P1"].entitlements[1].givenAt = <<>>
  /\ Len(participants["P1"].entitlementHistory) = 2
  /\ participants["P1"].entitlementHistory[1].action = "distributed"
  /\ participants["P1"].entitlementHistory[1].count >= 1
  /\ participants["P1"].entitlementHistory[2].action = "undone"
  /\ participants["P1"].entitlementHistory[2].entitlementName = "Beer"

\* C15: mark-attendance and undo-attendance change only isPresent,
\* attendanceTime and attendanceMarkedBy of the target participant: every
\* entitlement instance and every history list is unchanged, and so is every
\* other participant
C15_AttendanceFrame ==
  [][last'.op \in {"markAttendance", "undoAttendance"} =>
       \A pid \in Pids, a \in Actors :
         (MarkAttendance(pid, a) \/ UndoAttendance(pid, a))
         => /\ \A q \in Pids \ {pid} : participants'[q] = participants[q]
            /\ participants'[pid] =
                 [participants[pid] EXCEPT
                    !.isPresent = participants'[pid].isPresent,
                    !.attendanceTime = participants'[pid].attendanceTime,
                    !.attendanceMarkedBy = participants'[pid].attendanceMarkedBy]
            /\ UNCHANGED <<settings, groups, admins>>
    ]_vars

\* C15 witness: attendance of P1 was undone after a grant; P1 is absent and
\* still holds the grant with its pair and its history entry
C15_Witness ==
  /\ last.op = "undoAttendance" /\ last.code = "OK"
  /\ ~participants["P1"].isPresent
  /\ participants["P1"].attendanceMarkedBy = Null
  /\ \E k \in 1 .. Len(participants["P1"].entitlements) :
        LET e == participants["P1"].entitlements[k]
        IN  e.given > 0 /\ Len(e.givenAt) = e.given /\ Len(e.givenBy) = e.given
  /\ Len(participants["P1"].entitlementHistory) = 1

(* ------------------------- the group routes ---------------------------- *)

\* entitlementType, entitlementName and count of the requests sent to the
\* group routes
SquadRequests ==
  {<<"custom", "Beer", c>> : c \in {1, MaxCount}}
    \cup {<<"custom", "Wine", 1>>, <<"beer", Null, 1>>, <<"lunch", Null, 1>>}

NextGroups ==
  \/ \E pid \in Pids : MarkAttendance(pid, "gate1")
  \/ \E rq \in SquadRequests, actor \in {"food1", "gate1"} :
        GroupDistribute(SquadId, rq[1], rq[2], rq[3], actor)
  \/ \E rq \in SquadRequests, actor \in {"admin1", "food1"} :
        GroupUndo(SquadId, rq[1], rq[2], rq[3], actor)
  \/ CustomUndo("P1", "Beer", 1, "admin1")

SpecGroups == Init /\ [][NextGroups]_vars

LiveRecords(h, g, name) ==
  {k \in 1 .. Len(h) : h[k].groupId = g /\ h[k].entitlementName = name /\ h[k].undoneAt = 0}

selectedFor(doc, template) ==
  /\ template.isActive
  /\ (template.defaultForParticipants \/ template.defaultForPlayers = doc.isPlayer)
  /\ \A k \in 1 .. Len(doc.entitlements) : doc.entitlements[k].templateId # template.id

\* autoAssignEntitlements(participant): the loop over the templates from
\* template k on
RECURSIVE autoAssignEntitlements(_, _)
autoAssignEntitlements(doc, k) ==
  IF k > Len(templates) THEN doc
  ELSE LET template == templates[k]
           effectiveMaxCount == getEntitlementLimit(template.name, template.maxCount)
       IN  autoAssignEntitlements(
             IF selectedFor(doc, template)
             THEN [doc EXCEPT !.entitlements =
                     Append(@, NewInstance(template.id, template.name,
                                           template.isCountable, effectiveMaxCount))]
             ELSE doc,
             k + 1)

\* POST /auto-assign-entitlements
AutoAssignEntitlements(participantType, actor) ==
  /\ UNCHANGED <<settings, groups, templates, admins, now>>
  /\ IF ~requirePermission(actor, "canManageSettings")
     THEN /\ last' = Response("autoAssignEntitlements", "PERMISSION_DENIED")
          /\ UNCHANGED participants
     ELSE /\ participants' =
               [p \in DOMAIN participants |->
                  IF participantFilter(participantType, participants[p])
                  THEN autoAssignEntitlements(participants[p], 1)
                  ELSE participants[p]]
          /\ last' = Response("autoAssignEntitlements", "OK")

\* shouldAssign without the test for an existing entitlement of that name
shouldAssignAgain(doc, template) ==
  (doc.isPlayer /\ template.defaultForPlayers)
    \/ (~doc.isPlayer /\ template.defaultForParticipants)

\* POST /auto-assign (routes/settings.js): shouldAssign and the test for an
\* existing custom entitlement of that name
shouldAssign(doc, template) ==
  /\ (doc.isPlayer /\ template.defaultForPlayers)
       \/ (~doc.isPlayer /\ template.defaultForParticipants)
  /\ findIndexByName(doc.customEntitlements, template.name) = 0

\* the loop over templates of POST /auto-assign for one participant, from
\* template k on; templates is the result of find({isActive: true})
RECURSIVE autoAssign(_, _)
autoAssign(doc, k) ==
  IF k > Len(templates) THEN doc
  ELSE LET template == templates[k]
       IN  autoAssign(
             IF template.isActive /\ shouldAssign(doc, template)
             THEN [doc EXCEPT !.customEntitlements =
                     Append(@, NewInstance(Null, template.name,
                                           template.isCountable, template.maxCount))]
             ELSE doc,
             k + 1)

\* the participants of a sequence whose document is not the stored one
RECURSIVE updatedOf(_, _)
updatedOf(pids, parts) ==
  IF pids = <<>> THEN <<>>
  ELSE (IF parts[Head(pids)] # participants[Head(pids)] THEN <<Head(pids)>> ELSE <<>>)
         \o updatedOf(Tail(pids), parts)

\* POST /auto-assign
AutoAssign(participantType, actor) ==
  /\ UNCHANGED <<settings, groups, templates, admins, now>>
  /\ IF ~requirePermission(actor, "canManageSettings")
     THEN /\ last' = Response("autoAssign", "PERMISSION_DENIED")
          /\ UNCHANGED participants
     ELSE LET parts == [p \in DOMAIN participants |->
                          IF participantFilter(participantType, participants[p])
                          THEN autoAssign(participants[p], 1)
                          ELSE participants[p]]
          IN  /\ participants' = parts
              /\ last' = [Response("autoAssign", "OK") EXCEPT
                            !.results = updatedOf(<<"P1", "P2">>, parts)]

NextAssign ==
  \/ MarkAttendance("P1", "gate1")
  \/ \E participantType \in {"all", "players", "participants"}, actor \in {"admin1", "food1"} :
        AutoAssignEntitlements(participantType, actor)
  \/ \E participantType \in {"all", "players", "participants"}, actor \in {"admin1", "food1"} :
        AutoAssign(participantType, actor)
  \/ \E v \in SettingValues : UpdateSetting("softDrinkLimit", v, "admin1")
  \/ \E name \in {"beer", "soft drinks", "voucher"} :
        DistributeEntitlement("P1", name, 1, "food1")

SpecAssign == Init /\ [][NextAssign]_vars

\* the participant-type rule of auto-assignment
AssignRule(doc, template) ==
  /\ template.isActive
  /\ (doc.isPlayer /\ template.defaultForPlayers)
       \/ (~doc.isPlayer /\ template.defaultForParticipants)

\* a list of instances has one with this name, compared case-insensitively
Holds(list, name) ==
  \E j \in 1 .. Len(list) : toLowerCase(list[j].name) = toLowerCase(name)

\* C18: auto-assignment attaches a template to a participant exactly when the
\* template is active, (isPlayer and defaultForPlayers) or (not isPlayer and
\* defaultForParticipants) holds, and the participant holds no instance of
\* that name; a player never receives a template with defaultForPlayers false
\* and a non-player never one with defaultForParticipants false
C18_AutoAssignRule ==
  [][last'.op \in {"autoAssignEntitlements", "autoAssign"} =>
       \A participantType \in {"all", "players", "participants"}, a \in Actors :
         /\ ( /\ last'.op = "autoAssignEntitlements"
              /\ requirePermission(a, "canManageSettings")
              /\ AutoAssignEntitlements(participantType, a) )
            => \A p \in Pids, k \in 1 .. Len(templates) :
                 participantFilter(participantType, participants[p]) =>
                   LET before == Holds(participants[p].entitlements, templates[k].name)
                       after == Holds(participants'[p].entitlements, templates[k].name)
                   IN  (~before /\ after)
                         <=> (AssignRule(participants[p], templates[k]) /\ ~before)
         /\ ( /\ last'.op = "autoAssign"
              /\ requirePermission(a, "canManageSettings")
              /\ AutoAssign(participantType, a) )
            => \A p \in Pids, k \in 1 .. Len(templates) :
                 participantFilter(participantType, participants[p]) =>
                   LET before == Holds(participants[p].customEntitlements, templates[k].name)
                       after == Holds(participants'[p].customEntitlements, templates[k].name)
                   IN  (~before /\ after)
                         <=> (AssignRule(participants[p], templates[k]) /\ ~before)
    ]_vars

\* C19: auto-assignment is idempotent: a second run on the same participant,
\* with the catalog and the settings unchanged, attaches nothing and leaves
\* every instance, with its given, givenAt and givenBy, as the first run left it
C19_AutoAssignIdempotent ==
  \A p \in Pids :
     LET first == autoAssignEntitlements(participants[p], 1)
         firstCustom == autoAssign(participants[p], 1)
     IN  /\ autoAssignEntitlements(first, 1) = first
         /\ autoAssign(firstCustom, 1) = firstCustom
         /\ \A k \in 1 .. Len(participants[p].entitlements) :
               first.entitlements[k] = participants[p].entitlements[k]
         /\ \A k \in 1 .. Len(participants[p].customEntitlements) :
               firstCustom.customEntitlements[k] = participants[p].customEntitlements[k]

\* C19 witness: an auto-assignment run attached nothing to anyone: P1 already
\* held the instances of an earlier run, one of them with a grant
C19_Witness ==
  /\ last.op = "autoAssign" /\ last.code = "OK" /\ last.results = <<>>
  /\ Len(participants["P1"].customEntitlements) > 2
  /\ Len(participants["P1"].entitlements) > 2
  /\ \E k \in 1 .. Len(participants["P1"].entitlements) :
        participants["P1"].entitlements[k].given > 0

(* ----------------------------- staff accounts -------------------------- *)

\* usernames a request may carry: the three stored accounts and two new ones
Usernames == Actors \cup {"admin2", "staff2"}

\* roles a create-user request may carry (Null: the field is missing)
RequestedRoles == {"gate", "food", "admin", Null}

\* new Admin({username, password, role, ...}): the schema defaults
newAdmin(role) ==
  [role |-> role, isActive |-> TRUE,
   permissions |-> [canMarkAttendance |-> FALSE, canDistributeFood |-> FALSE,
                    canUndoActions |-> FALSE, canManageUsers |-> FALSE,
                    canManageSettings |-> FALSE]]

preSaveSkipped(doc, roleModified) ==
  doc

\* adminSchema.pre("save"): permissions follow the role when the role was modified
preSave(doc, roleModified) ==
  IF roleModified
  THEN [doc EXCEPT !.permissions = rolePermissions(doc.role)]
  ELSE doc

\* POST /create-admin (no authentication)
CreateAdmin(username) ==
  /\ UNCHANGED <<participants, settings, groups, templates, now>>
  /\ IF username \in DOMAIN admins
     THEN /\ last' = Response("createAdmin", "EXISTS")
          /\ UNCHANGED admins
     ELSE /\ admins' = [u \in DOMAIN admins \cup {username} |->
                          IF u = username THEN preSave(newAdmin("admin"), TRUE)
                          ELSE admins[u]]
          /\ last' = Response("createAdmin", "OK")

\* POST /create-user
CreateUser(username, role, actor) ==
  /\ IF ~requirePermission(actor, "canManageUsers")
     THEN /\ last' = Response("createUser", "PERMISSION_DENIED")
          /\ UNCHANGED admins
     ELSE IF role = Null
     THEN /\ last' = Response("createUser", "REQUIRED")
          /\ UNCHANGED admins
     ELSE IF role \notin {"gate", "food"}
     THEN /\ last' = Response("createUser", "INVALID_ROLE")
          /\ UNCHANGED admins
     ELSE IF username \in DOMAIN admins
     THEN /\ last' = Response("createUser", "EXISTS")
          /\ UNCHANGED admins
     ELSE /\ admins' = [u \in DOMAIN admins \cup {username} |->
                          IF u = username THEN preSave(newAdmin(role), TRUE)
                          ELSE admins[u]]
          /\ last' = Response("createUser", "OK")
  /\ UNCHANGED <<participants, settings, groups, templates, now>>

\* PATCH /users/:userId/status
UpdateUserStatus(userId, isActive, actor) ==
  /\ IF ~requirePermission(actor, "canManageUsers")
     THEN /\ last' = Response("updateUserStatus", "PERMISSION_DENIED")
          /\ UNCHANGED admins
     ELSE IF userId \notin DOMAIN admins
     THEN /\ last' = Response("updateUserStatus", "NOT_FOUND")
          /\ UNCHANGED admins
     ELSE IF admins[userId].role = "admin"
     THEN /\ last' = Response("updateUserStatus", "CANNOT_MODIFY_ADMIN")
          /\ UNCHANGED admins
     ELSE /\ admins' = [admins EXCEPT ![userId] =
                          preSave([@ EXCEPT !.isActive = isActive], FALSE)]
          /\ last' = Response("updateUserStatus", "OK")
  /\ UNCHANGED <<participants, settings, groups, templates, now>>

\* POST /login; the token of a successful login names the account
Login(username, passwordOk) ==
  /\ UNCHANGED <<participants, settings, groups, templates, admins, now>>
  /\ IF username = Null
     THEN last' = Response("login", "LOGIN_REQUIRED")
     ELSE IF username \notin DOMAIN admins \/ (username \in DOMAIN admins /\ ~admins[username].isActive)
     THEN last' = Response("login", "INVALID_OR_DEACTIVATED")
     ELSE IF ~passwordOk
     THEN last' = Response("login", "INVALID_CREDENTIALS")
     ELSE last' = [Response("login", "OK") EXCEPT !.results = <<username>>]

NextStaff ==
  \/ \E u \in Usernames \cup {Null}, ok \in BOOLEAN : Login(u, ok)
  \/ \E u \in Usernames : CreateAdmin(u)
  \/ \E u \in Usernames, r \in RequestedRoles, a \in Usernames : CreateUser(u, r, a)
  \/ \E u \in Usernames, b \in BOOLEAN, a \in Usernames : UpdateUserStatus(u, b, a)
  \/ \E a \in Usernames : MarkAttendance("P1", a)

SpecStaff == Init /\ [][NextStaff]_vars

\* the capabilities an account holds
Capabilities(account) ==
  {c \in DOMAIN account.permissions : account.permissions[c]}

(* C20: in every reachable state the permission set of each stored staff
   account is the fixed mapping of its role: an admin holds all five
   capabilities, a gate account only canMarkAttendance, a food account only
   canDistributeFood; this holds after any sequence of create-admin,
   create-user and status-update operations. *)
C20_PermissionsFollowRole ==
  \A u \in DOMAIN admins :
     /\ admins[u].role \in {"admin", "gate", "food"}
     /\ DOMAIN admins[u].permissions =
          {"canMarkAttendance", "canDistributeFood", "canUndoActions",
           "canManageUsers", "canManageSettings"}
     /\ Capabilities(admins[u]) =
          CASE admins[u].role = "admin" ->
                 {"canMarkAttendance", "canDistributeFood", "canUndoActions",
                  "canManageUsers", "canManageSettings"}
            [] admins[u].role = "gate" -> {"canMarkAttendance"}
            [] admins[u].role = "food" -> {"canDistributeFood"}

C20_Witness ==
  /\ last.op = "updateUserStatus" /\ last.code = "OK"
  /\ "admin2" \in DOMAIN admins /\ admins["admin2"].role = "admin"
  /\ "staff2" \in DOMAIN admins /\ admins["staff2"].role = "gate"
  /\ ~admins["staff2"].isActive
  /\ ~admins["food1"].isActive

(* C21: no state-mutating operation takes effect unless the caller is an
   active account whose stored permissions hold the capability the operation
   requires: every step that changes a participant or a staff account is the
   step of a request by such a caller (mark attendance with canMarkAttendance,
   create-user and status-update with canManageUsers); an unauthenticated
   caller never creates or modifies a staff account. *)
C21_OnlyPermittedCallersMutate ==
  [][(admins' # admins \/ participants' # participants) =>
       \/ \E a \in Usernames :
             /\ requirePermission(a, "canMarkAttendance")
             /\ MarkAttendance("P1", a)
       \/ \E u \in Usernames, r \in RequestedRoles, a \in Usernames :
             /\ requirePermission(a, "canManageUsers")
             /\ CreateUser(u, r, a)
       \/ \E u \in Usernames, b \in BOOLEAN, a \in Usernames :
             /\ requirePermission(a, "canManageUsers")
             /\ UpdateUserStatus(u, b, a)
    ]_vars

(* --------------------------- template catalog -------------------------- *)

\* the ObjectIds given to new templates, in the order they are created
NewTemplateIds == <<"T8", "T9", "T10", "T11">>

\* _id of a new EntitlementTemplate
newTemplateId(catalog) == NewTemplateIds[Len(catalog) - Len(Templates) + 1]

\* EntitlementTemplate.findById: index of the template, 0 when there is none
findById(catalog, templateId) ==
  LET hits == {k \in 1 .. Len(catalog) : catalog[k].id = templateId}
  IN  IF hits = {} THEN 0 ELSE CHOOSE k \in hits : TRUE

\* EntitlementTemplate.findOne({name: {$regex: new RegExp(`^${name}$`, "i")}})
findOneByNameRegex(catalog, name) ==
  \E k \in 1 .. Len(catalog) : toLowerCase(catalog[k].name) = toLowerCase(name)

\* the unique index on name (default collation: exact comparison) rejects the
\* save of document k
duplicateKey(catalog, k) ==
  \E j \in (1 .. Len(catalog)) \ {k} : catalog[j].name = catalog[k].name

\* the requests <<name, category, isCountable, maxCount>> sent to POST /templates
CreateRequests ==
  { <<"Snack", "food", TRUE, 0>>, <<"BEER", "beverage", TRUE, 2>>,
    <<"Snack", Null, FALSE, 1>> }

\* POST /templates
CreateTemplate(name, category, isCountable, maxCount, actor) ==
  /\ UNCHANGED <<participants, settings, groups, admins, now>>
  /\ IF ~requirePermission(actor, "canManageSettings")
     THEN /\ last' = Response("createTemplate", "PERMISSION_DENIED")
          /\ UNCHANGED templates
     ELSE IF name = Null \/ category = Null
     THEN /\ last' = Response("createTemplate", "TEMPLATE_VALIDATION")
          /\ UNCHANGED templates
     ELSE IF findOneByNameRegex(templates, name)
     THEN /\ last' = Response("createTemplate", "TEMPLATE_EXISTS")
          /\ UNCHANGED templates
     ELSE /\ Len(templates) < Len(Templates) + Len(NewTemplateIds)
          /\ templates' =
               Append(templates,
                      [id |-> newTemplateId(templates), name |-> name,
                       isCountable |-> isCountable,
                       maxCount |-> IF isCountable
                                    THEN (IF maxCount = 0 THEN 1 ELSE maxCount)
                                    ELSE 1,
                       defaultForPlayers |-> FALSE, defaultForParticipants |-> FALSE,
                       isActive |-> TRUE])
          /\ last' = Response("createTemplate", "OK")

\* the bodies sent to PUT /templates/:templateId
UpdateBodies ==
  {[name |-> n] : n \in {"beer", "Beer", "Supper"}}
    \cup {[isActive |-> TRUE], [id |-> "T1", maxCount |-> 1]}

\* Object.assign(template, updateData) after the deletion of _id and createdBy
assign(template, updateData) ==
  [f \in DOMAIN template |->
     IF f \in DOMAIN updateData \ {"id"} THEN updateData[f] ELSE template[f]]

\* Object.assign(template, updateData); await template.save()
assignAndSave(catalog, k, updateData) ==
  LET updated == [catalog EXCEPT ![k] = assign(@, updateData)]
  IN  IF duplicateKey(updated, k)
      THEN [code |-> "UPDATE_TEMPLATE_SERVER_ERROR", catalog |-> catalog]
      ELSE [code |-> "OK", catalog |-> updated]

\* PUT /templates/:templateId
UpdateTemplate(templateId, updateData, actor) ==
  /\ UNCHANGED <<participants, settings, groups, admins, now>>
  /\ IF ~requirePermission(actor, "canManageSettings")
     THEN /\ last' = Response("updateTemplate", "PERMISSION_DENIED")
          /\ UNCHANGED templates
     ELSE IF findById(templates, templateId) = 0
     THEN /\ last' = Response("updateTemplate", "TEMPLATE_NOT_FOUND")
          /\ UNCHANGED templates
     ELSE LET saved == assignAndSave(templates, findById(templates, templateId), updateData)
          IN  /\ templates' = saved.catalog
              /\ last' = Response("updateTemplate", saved.code)

\* DELETE /templates/:templateId
DeleteTemplate(templateId, actor) ==
  /\ UNCHANGED <<participants, settings, groups, admins, now>>
  /\ IF ~requirePermission(actor, "canManageSettings")
     THEN /\ last' = Response("deleteTemplate", "PERMISSION_DENIED")
          /\ UNCHANGED templates
     ELSE IF findById(templates, templateId) = 0
     THEN /\ last' = Response("deleteTemplate", "TEMPLATE_NOT_FOUND")
          /\ UNCHANGED templates
     ELSE /\ templates' = [templates EXCEPT ![findById(templates, templateId)].isActive = FALSE]
          /\ last' = Response("deleteTemplate", "OK")

\* the fixedEntitlements array of POST /initialize-fixed
fixedEntitlements ==
  << [name |-> "Breakfast", isCountable |-> FALSE, maxCount |-> 1],
     [name |-> "Lunch", isCountable |-> FALSE, maxCount |-> 1],
     [name |-> "Beer", isCountable |-> TRUE, maxCount |-> 2],
     [name |-> "Soft Drinks", isCountable |-> TRUE, maxCount |-> 3],
     [name |-> "Evening Refreshment", isCountable |-> FALSE, maxCount |-> 1] >>

\* the loop of POST /initialize-fixed from entry k on
RECURSIVE initializeFixed(_, _)
initializeFixed(catalog, k) ==
  IF k > Len(fixedEntitlements) THEN catalog
  ELSE LET entitlementData == fixedEntitlements[k]
       IN  initializeFixed(
             IF findOneByNameRegex(catalog, entitlementData.name)
             THEN catalog
             ELSE Append(catalog,
                         [id |-> newTemplateId(catalog), name |-> entitlementData.name,
                          isCountable |-> entitlementData.isCountable,
                          maxCount |-> entitlementData.maxCount,
                          defaultForPlayers |-> TRUE, defaultForParticipants |-> TRUE,
                          isActive |-> TRUE]),
             k + 1)

\* POST /initialize-fixed
InitializeFixed(actor) ==
  /\ UNCHANGED <<participants, settings, groups, admins, now>>
  /\ IF ~requirePermission(actor, "canManageSettings")
     THEN /\ last' = Response("initializeFixed", "PERMISSION_DENIED")
          /\ UNCHANGED templates
     ELSE /\ Len(initializeFixed(templates, 1)) <= Len(Templates) + Len(NewTemplateIds)
          /\ templates' = initializeFixed(templates, 1)
          /\ last' = Response("initializeFixed", "OK")

\* the templates an update or a deactivation is sent for ("T0" does not exist)
TargetTemplates == {"T2", "T6", "T7", "T0"}

NextCatalog ==
  \/ \E rq \in CreateRequests, a \in {"admin1", "food1"} :
        CreateTemplate(rq[1], rq[2], rq[3], rq[4], a)
  \/ \E t \in TargetTemplates, b \in UpdateBodies, a \in {"admin1", "food1"} :
        UpdateTemplate(t, b, a)
  \/ \E t \in TargetTemplates, a \in {"admin1", "food1"} : DeleteTemplate(t, a)
  \/ \E a \in {"admin1", "food1"} : InitializeFixed(a)

SpecCatalog == Init /\ [][NextCatalog]_vars

(* C22: after any sequence of template create, update, deactivate and
   initialize-fixed operations no two templates of the catalog have names
   that are equal case-insensitively. *)
C22_TemplateNamesUnique ==
  \A j, k \in 1 .. Len(templates) :
     j # k => toLowerCase(templates[j].name) # toLowerCase(templates[k].name)

(* ----------------------------- registration ---------------------------- *)

\* the identifiers generateParticipantId() returns
NewPids == {"P3", "P4"}

\* the email addresses of the registration requests: one already registered,
\* one new, and a missing one
RequestEmails == {"p1@event", "new@event", Null}

\* generateQRCode(participantId): the image of the identifier
generateQRCode(participantId) == <<"QR", participantId>>

\* new Participant({participantId, email, isPlayer, qrCode, entitlements: []})
newParticipant(participantId, email, isPlayer, qrCode) ==
  [isPlayer |-> isPlayer,
   email |-> email,
   qrCode |-> qrCode,
   isPresent |-> FALSE, attendanceTime |-> 0, attendanceMarkedBy |-> Null,
   entitlements |-> <<>>,
   customEntitlements |-> <<>>,
   fixed |-> [beer |-> [given |-> 0, givenAt |-> <<>>, givenBy |-> <<>>],
              lunch |-> [given |-> FALSE, givenAt |-> 0, givenBy |-> Null]],
   entitlementHistory |-> <<>>,
   groupEntitlementHistory |-> <<>>,
   groups |-> <<>>]

\* participant.save() followed by autoAssignEntitlements(participant), whose
\* own save may fail (the error is logged and swallowed)
saveAndAssign(parts, participantId, doc, assignOk) ==
  [p \in DOMAIN parts \cup {participantId} |->
     IF p = participantId
     THEN (IF assignOk THEN autoAssignEntitlements(doc, 1) ELSE doc)
     ELSE parts[p]]

createWithoutCode(parts, participantId, email, isPlayer, qrOk, saveOk, assignOk) ==
  IF ~saveOk
  THEN [created |-> FALSE, parts |-> parts]
  ELSE [created |-> TRUE,
        parts |-> saveAndAssign(parts, participantId,
                                newParticipant(participantId, email, isPlayer,
                                               IF qrOk THEN generateQRCode(participantId)
                                               ELSE <<>>),
                                assignOk)]

\* generateQRCode, new Participant, save, autoAssignEntitlements: an error of
\* the first two steps leaves the store as it was
create(parts, participantId, email, isPlayer, qrOk, saveOk, assignOk) ==
  IF ~qrOk \/ ~saveOk
  THEN [created |-> FALSE, parts |-> parts]
  ELSE [created |-> TRUE,
        parts |-> saveAndAssign(parts, participantId,
                                newParticipant(participantId, email, isPlayer,
                                               generateQRCode(participantId)),
                                assignOk)]

\* POST / (add single participant)
AddParticipant(participantId, email, isPlayer, sendEmail, qrOk, saveOk, assignOk, emailOk, actor) ==
  /\ UNCHANGED <<settings, groups, templates, admins, now>>
  /\ IF ~requirePermission(actor, "canManageSettings")
     THEN /\ last' = Response("addParticipant", "PERMISSION_DENIED")
          /\ UNCHANGED participants
     ELSE IF email = Null
     THEN /\ last' = Response("addParticipant", "ADD_PARTICIPANT_VALIDATION")
          /\ UNCHANGED participants
     ELSE IF \E p \in DOMAIN participants : participants[p].email = email
     THEN /\ last' = Response("addParticipant", "PARTICIPANT_EXISTS")
          /\ UNCHANGED participants
     ELSE LET made == create(participants, participantId, email, isPlayer,
                             qrOk, saveOk, assignOk)
          IN  /\ participantId \notin DOMAIN participants
              /\ participants' = made.parts
              /\ last' =
                   IF made.created
                   THEN [Response("addParticipant", "OK") EXCEPT
                           !.results = << [participantId |-> participantId,
                                           emailSent |-> sendEmail /\ emailOk] >>]
                   ELSE Response("addParticipant", "ADD_PARTICIPANT_SERVER_ERROR")

\* the rows of an uploaded sheet: email, isPlayer, the identifier generated
\* for the row, and the outcomes of the code render, of the two saves and of
\* the email delivery
UploadRows ==
  { [email |-> "row@event", isPlayer |-> FALSE, cand |-> c,
     qrOk |-> q[1], saveOk |-> q[2], assignOk |-> TRUE, emailOk |-> q[3]] :
       c \in NewPids \cup {"P1"},
       q \in {<<TRUE, TRUE, TRUE>>, <<TRUE, TRUE, FALSE>>,
              <<FALSE, TRUE, TRUE>>, <<TRUE, FALSE, FALSE>>} }
    \cup {[email |-> Null, isPlayer |-> TRUE, cand |-> "P3",
           qrOk |-> TRUE, saveOk |-> TRUE, assignOk |-> TRUE, emailOk |-> TRUE]}

\* the loop over the rows of POST /upload from row k on;
\* acc = [parts, results]
RECURSIVE forEachRow(_, _, _)
forEachRow(rows, k, acc) ==
  IF k > Len(rows) THEN acc
  ELSE
    LET raw == rows[k]
        made == create(acc.parts, raw.cand, raw.email, raw.isPlayer,
                       raw.qrOk, raw.saveOk, raw.assignOk)
        r == IF raw.email = Null
             THEN [parts |-> acc.parts,
                   result |-> [success |-> FALSE, code |-> "PARTICIPANT_INVALID_INPUT",
                               emailWarning |-> FALSE]]
             ELSE IF raw.cand \in DOMAIN acc.parts
             THEN [parts |-> acc.parts,
                   result |-> [success |-> FALSE, code |-> "PARTICIPANT_ID_GENERATION_FAILED",
                               emailWarning |-> FALSE]]
             ELSE IF ~made.created
             THEN [parts |-> acc.parts,
                   result |-> [success |-> FALSE, code |-> "PARTICIPANT_CREATE_ERROR",
                               emailWarning |-> FALSE]]
             ELSE [parts |-> made.parts,
                   result |-> [success |-> TRUE, code |-> raw.cand,
                               emailWarning |-> ~raw.emailOk]]
    IN  forEachRow(rows, k + 1,
                   [parts |-> r.parts, results |-> Append(acc.results, r.result)])

\* POST /upload
Upload(rows, actor) ==
  /\ UNCHANGED <<settings, groups, templates, admins, now>>
  /\ IF ~requirePermission(actor, "canManageUsers")
     THEN /\ last' = Response("upload", "PERMISSION_DENIED")
          /\ UNCHANGED participants
     ELSE IF rows = <<>>
     THEN /\ last' = Response("upload", "UPLOAD_EMPTY")
          /\ UNCHANGED participants
     ELSE LET acc == forEachRow(rows, 1, [parts |-> participants, results |-> <<>>])
          IN  /\ participants' = acc.parts
              /\ last' = [Response("upload",
                                   IF \E k \in 1 .. Len(acc.results) : acc.results[k].success
                                   THEN "OK" ELSE "NONE_CREATED")
                            EXCEPT !.results = acc.results]

(* ------------------- attaching and removing instances ------------------ *)

\* POST /:participantId/add-entitlement
AddEntitlement(pid, templateId, customMaxCount, actor) ==
  /\ UNCHANGED <<settings, groups, templates, admins>>
  /\ IF ~requirePermission(actor, "canManageSettings")
     THEN /\ last' = Response("addEntitlement", "PERMISSION_DENIED")
          /\ UNCHANGED <<participants, now>>
     ELSE IF templateId = Null
     THEN /\ last' = Response("addEntitlement", "TEMPLATE_ID_REQUIRED")
          /\ UNCHANGED <<participants, now>>
     ELSE IF pid \notin DOMAIN participants
     THEN /\ last' = Response("addEntitlement", "PARTICIPANT_NOT_FOUND")
          /\ UNCHANGED <<participants, now>>
     ELSE IF findById(templates, templateId) = 0
             \/ ~templates[findById(templates, templateId)].isActive
     THEN /\ last' = Response("addEntitlement", "TEMPLATE_NOT_FOUND_OR_INACTIVE")
          /\ UNCHANGED <<participants, now>>
     ELSE LET template == templates[findById(templates, templateId)]
              effectiveMaxCount ==
                IF customMaxCount # 0 THEN customMaxCount
                ELSE getEntitlementLimit(template.name, template.maxCount)
          IN  IF findIndexByName(participants[pid].entitlements, template.name) # 0
              THEN /\ last' = Response("addEntitlement", "ENTITLEMENT_ALREADY_EXISTS")
                   /\ UNCHANGED <<participants, now>>
              ELSE /\ now < MaxOps
                   /\ now' = now + 1
                   /\ participants' =
                        [participants EXCEPT
                           ![pid].entitlements =
                              Append(@, NewInstance(template.id, template.name,
                                                    template.isCountable, effectiveMaxCount)),
                           ![pid].entitlementHistory =
                              Append(@, HistoryEntry(template.name, "added", 1, now, actor))]
                   /\ last' = Response("addEntitlement", "OK")

\* DELETE /:participantId/remove-entitlement/:entitlementName
RemoveEntitlement(pid, entitlementName, actor) ==
  /\ UNCHANGED <<settings, groups, templates, admins, now>>
  /\ IF ~requirePermission(actor, "canManageSettings")
     THEN /\ last' = Response("removeEntitlement", "PERMISSION_DENIED")
          /\ UNCHANGED participants
     ELSE IF pid \notin DOMAIN participants
     THEN /\ last' = Response("removeEntitlement", "PARTICIPANT_NOT_FOUND")
          /\ UNCHANGED participants
     ELSE LET index == findIndexByName(participants[pid].entitlements, entitlementName)
          IN  IF index = 0
              THEN /\ last' = Response("removeEntitlement", "ENTITLEMENT_NOT_FOUND")
                   /\ UNCHANGED participants
              ELSE /\ participants' =
                        [participants EXCEPT ![pid].entitlements = splice(@, index - 1, 1)]
                   /\ last' = Response("removeEntitlement", "OK")

\* the specification of the instances a participant holds: registration,
\* auto-assignment, add and remove entitlement, template rename and
\* deactivation
NextAttach ==
  \/ UpdateTemplate("T2", [name |-> "Supper"], "admin1")
  \/ UpdateTemplate("T6", [name |-> "beer"], "admin1")
  \/ UpdateTemplate("T6", [isActive |-> TRUE], "admin1")
  \/ DeleteTemplate("T6", "admin1")
  \/ \E rq \in {<<"P1", "T2", 0, "admin1">>, <<"P1", "T6", 3, "admin1">>,
                 <<"P1", "T7", 0, "admin1">>, <<"P1", "T0", 0, "admin1">>,
                 <<"P1", Null, 0, "admin1">>, <<UnknownPid, "T2", 0, "admin1">>,
                 <<"P1", "T6", 0, "food1">>} :
        AddEntitlement(rq[1], rq[2], rq[3], rq[4])
  \/ \E a \in {"admin1", "food1"} : RemoveEntitlement("P1", "lunch", a)
  \/ \E a \in {"admin1", "food1"} : AutoAssignEntitlements("players", a)
  \/ \E e \in RequestEmails, qrOk \in BOOLEAN, a \in {"admin1", "food1"} :
        AddParticipant("P3", e, TRUE, TRUE, qrOk, TRUE, TRUE, TRUE, a)

SpecAttach == Init /\ [][NextAttach]_vars

(* C23: in every reachable state a participant holds at most one
   entitlement instance per template, and no two of its instances have names
   equal case-insensitively, after any sequence of registration,
   auto-assign, add-entitlement, remove-entitlement and template update
   (a rename included). *)
C23_OneInstancePerTemplate ==
  \A p \in DOMAIN participants :
     \A j, k \in 1 .. Len(participants[p].entitlements) :
        j # k =>
          /\ participants[p].entitlements[j].templateId
               # participants[p].entitlements[k].templateId
          /\ toLowerCase(participants[p].entitlements[j].name)
               # toLowerCase(participants[p].entitlements[k].name)

\* the number of instances of the template the participant holds
Attached(parts, p, templateId) ==
  IF p \in DOMAIN parts
  THEN Cardinality({k \in 1 .. Len(parts[p].entitlements) :
                      parts[p].entitlements[k].templateId = templateId})
  ELSE 0

\* the step attaches an instance of the template to some participant
Attaches(templateId) ==
  \E p \in DOMAIN participants' :
     Attached(participants', p, templateId) > Attached(participants, p, templateId)

(* C24: template catalog operations never touch participants: create,
   update, deactivation and initialize-fixed leave every participant
   document (each instance's name, countable flag, maxCount, given, givenAt
   and givenBy included) unchanged; a deactivation keeps every template
   record and changes only isActive of its target to false; and after its
   deactivation a template is never again attached by add-entitlement or
   auto-assignment: from a state in which it is inactive no step attaches an
   instance of it, and no step makes it attachable again. *)
C24_CatalogLeavesParticipants ==
  /\ [][last'.op \in {"createTemplate", "updateTemplate", "deleteTemplate", "initializeFixed"}
          => participants' = participants]_vars
  /\ [][last'.op = "deleteTemplate" =>
          /\ Len(templates') = Len(templates)
          /\ \A k \in 1 .. Len(templates) :
                \/ templates'[k] = templates[k]
                \/ templates'[k] = [templates[k] EXCEPT !.isActive = FALSE]]_vars
  /\ [][\A k \in 1 .. Len(templates) :
          ~templates[k].isActive =>
             /\ ~Attaches(templates[k].id)
             /\ ~templates'[k].isActive]_vars

(* ------------------------------ group routes --------------------------- *)

\* Group.findById(groupId) returned no group or an inactive one
groupNotFound(gid) ==
  gid \notin DOMAIN groups \/ (gid \in DOMAIN groups /\ ~groups[gid].isActive)

pullNothing(doc, gid) ==
  doc

\* {$pull: {groups: {groupId}}} on one participant document
pull(doc, gid) ==
  [doc EXCEPT !.groups = SelectSeq(@, LAMBDA ref : ref.groupId # gid)]

\* DELETE /:groupId
DeleteGroup(gid, actor) ==
  /\ UNCHANGED <<settings, templates, admins, now>>
  /\ IF ~requirePermission(actor, "canManageSettings")
     THEN /\ last' = Response("deleteGroup", "PERMISSION_DENIED")
          /\ UNCHANGED <<participants, groups>>
     ELSE IF groupNotFound(gid)
     THEN /\ last' = Response("deleteGroup", "GROUP_NOT_FOUND")
          /\ UNCHANGED <<participants, groups>>
     ELSE /\ groups' = [groups EXCEPT ![gid].isActive = FALSE]
          /\ participants' = [p \in DOMAIN participants |-> pull(participants[p], gid)]
          /\ last' = Response("deleteGroup", "OK")

\* PUT /:groupId with a name: the name is taken by another active group
\* (case-insensitive regex)
nameTaken(gid, name) ==
  \E g \in DOMAIN groups \ {gid} :
     groups[g].isActive /\ toLowerCase(groups[g].name) = toLowerCase(name)

\* PUT /:groupId
UpdateGroup(gid, name, actor) ==
  /\ UNCHANGED <<participants, settings, templates, admins, now>>
  /\ IF ~requirePermission(actor, "canManageSettings")
     THEN /\ last' = Response("updateGroup", "PERMISSION_DENIED")
          /\ UNCHANGED groups
     ELSE IF groupNotFound(gid)
     THEN /\ last' = Response("updateGroup", "GROUP_NOT_FOUND")
          /\ UNCHANGED groups
     ELSE IF name # Null /\ name # groups[gid].name /\ nameTaken(gid, name)
     THEN /\ last' = Response("updateGroup", "GROUP_EXISTS")
          /\ UNCHANGED groups
     ELSE /\ groups' = [groups EXCEPT ![gid].name = IF name # Null THEN name ELSE @]
          /\ last' = Response("updateGroup", "OK")

\* the loop of POST /:groupId/members from participantIds[k] on;
\* acc = [members, parts, results, errors]; failing: the participants whose
\* save() throws
RECURSIVE forEachParticipantId(_, _, _, _, _)
forEachParticipantId(participantIds, k, acc, gid, failing) ==
  IF k > Len(participantIds) THEN acc
  ELSE
    LET participantId == participantIds[k]
        acc2 ==
          IF participantId \notin DOMAIN acc.parts
          THEN [acc EXCEPT !.errors = Append(@, <<participantId, "Participant not found">>)]
          ELSE IF \E j \in 1 .. Len(acc.members) : acc.members[j] = participantId
          THEN [acc EXCEPT !.errors = Append(@, <<participantId, "Already in group">>)]
          ELSE IF participantId \in failing
          THEN [acc EXCEPT !.members = Append(@, participantId),
                           !.errors = Append(@, <<participantId, "save failed">>)]
          ELSE [acc EXCEPT
                  !.members = Append(@, participantId),
                  !.parts[participantId].groups =
                     Append(@, [groupId |-> gid, groupName |-> groups[gid].name]),
                  !.results = Append(@, participantId)]
    IN  forEachParticipantId(participantIds, k + 1, acc2, gid, failing)

\* POST /:groupId/members
AddMembers(gid, participantIds, failing, actor) ==
  /\ UNCHANGED <<settings, templates, admins, now>>
  /\ IF ~requirePermission(actor, "canManageSettings")
     THEN /\ last' = Response("addMembers", "PERMISSION_DENIED")
          /\ UNCHANGED <<participants, groups>>
     ELSE IF participantIds = <<>>
     THEN /\ last' = Response("addMembers", "PARTICIPANT_IDS_REQUIRED")
          /\ UNCHANGED <<participants, groups>>
     ELSE IF groupNotFound(gid)
     THEN /\ last' = Response("addMembers", "GROUP_NOT_FOUND")
          /\ UNCHANGED <<participants, groups>>
     ELSE LET acc == forEachParticipantId(
                       participantIds, 1,
                       [members |-> groups[gid].members, parts |-> participants,
                        results |-> <<>>, errors |-> <<>>],
                       gid, failing)
          IN  /\ groups' = [groups EXCEPT ![gid].members = acc.members]
              /\ participants' = acc.parts
              /\ last' = [Response("addMembers", "OK") EXCEPT
                            !.results = acc.results, !.errors = acc.errors]

\* DELETE /:groupId/members/:participantId
RemoveMember(gid, participantId, actor) ==
  /\ UNCHANGED <<settings, templates, admins, now>>
  /\ IF ~requirePermission(actor, "canManageSettings")
     THEN /\ last' = Response("removeMember", "PERMISSION_DENIED")
          /\ UNCHANGED <<participants, groups>>
     ELSE IF groupNotFound(gid)
     THEN /\ last' = Response("removeMember", "GROUP_NOT_FOUND")
          /\ UNCHANGED <<participants, groups>>
     ELSE /\ groups' = [groups EXCEPT
                          ![gid].members = SelectSeq(@, LAMBDA m : m # participantId)]
          /\ participants' =
               [p \in DOMAIN participants |->
                  IF p = participantId THEN pull(participants[p], gid)
                  ELSE participants[p]]
          /\ last' = Response("removeMember", "OK")

\* the group ids of the requests ("G0" does not exist)
RequestGroupIds == GroupIds \cup {SquadId, "G0"}

\* the participantIds arrays sent to POST /:groupId/members: one id, the same
\* id twice, two ids, an unknown id and an empty array
MemberRequests ==
  {<<"P1">>, <<"P2", "P2">>, <<"P1", "P2">>, <<UnknownPid, "P1">>, <<>>}

\* the requests <<groupId, participantIds, failing, caller>> sent to
\* POST /:groupId/members; failing: the participants whose save() throws
AddMembersCalls ==
  { <<"G1", <<"P1">>, {}, "admin1">>, <<"G1", <<"P2", "P2">>, {}, "admin1">>,
    <<"G1", <<"P1", "P2">>, {"P2"}, "admin1">>,
    <<"G1", <<UnknownPid, "P1">>, {}, "admin1">>, <<"G1", <<>>, {}, "admin1">>,
    <<"G1", <<"P1">>, {}, "food1">>, <<"G0", <<"P1">>, {}, "admin1">> }

\* the specification of group membership and deletion, with a group
\* distribution and its undo for the group-scoped history
NextMembers ==
  \/ MarkAttendance("P1", "gate1")
  \/ \E g \in {"G1", "G0"} : GroupDistribute(g, "custom", "Beer", 1, "food1")
  \/ \E g \in {"G1", "G0"} : GroupUndo(g, "custom", "Beer", 1, "admin1")
  \/ \E c \in {<<"G1", "admin1">>, <<"G0", "admin1">>, <<"G1", "food1">>} :
        DeleteGroup(c[1], c[2])
  \/ \E c \in {<<"G1", "squad">>, <<"G1", "Crew">>, <<"G1", Null>>, <<"G0", "Crew">>} :
        UpdateGroup(c[1], c[2], "admin1")
  \/ \E c \in AddMembersCalls : AddMembers(c[1], c[2], c[3], c[4])
  \/ \E g \in {"G1", "G0"}, pid \in Pids : RemoveMember(g, pid, "admin1")

SpecMembers == Init /\ [][NextMembers]_vars

(* C25: deleting a group is a soft delete: it only sets the group's isActive
   to false (name and members stay), removes the backlink to that group from
   every participant and leaves the rest of every participant document, the
   group-scoped distribution history and the entitlement instances included,
   unchanged; afterwards every group operation on it (update, add member,
   remove member, distribute, undo, delete) by a caller with the required
   capability is rejected as group-not-found and changes nothing. *)
C25_GroupSoftDelete ==
  [][/\ last'.op = "deleteGroup" =>
          \A g \in RequestGroupIds, a \in Actors :
             ( /\ requirePermission(a, "canManageSettings")
               /\ ~groupNotFound(g)
               /\ DeleteGroup(g, a) )
             => /\ last'.code = "OK"
                /\ groups' = [groups EXCEPT ![g].isActive = FALSE]
                /\ \A p \in DOMAIN participants :
                      /\ participants'[p] =
                           [participants[p] EXCEPT !.groups = participants'[p].groups]
                      /\ participants'[p].groups =
                           SelectSeq(participants[p].groups, LAMBDA ref : ref.groupId # g)
     /\ \A g \in DOMAIN groups :
          ( /\ ~groups[g].isActive
            /\ \/ /\ last'.op = "updateGroup"
                  /\ \E name \in {"squad", "Crew", Null} : UpdateGroup(g, name, "admin1")
               \/ /\ last'.op = "addMembers"
                  /\ \E ids \in MemberRequests \ {<<>>}, failing \in {{}, {"P2"}} :
                        AddMembers(g, ids, failing, "admin1")
               \/ /\ last'.op = "removeMember"
                  /\ \E pid \in Pids : RemoveMember(g, pid, "admin1")
               \/ /\ last'.op = "groupDistribute"
                  /\ GroupDistribute(g, "custom", "Beer", 1, "food1")
               \/ /\ last'.op = "groupUndo"
                  /\ GroupUndo(g, "custom", "Beer", 1, "admin1")
               \/ /\ last'.op = "deleteGroup"
                  /\ DeleteGroup(g, "admin1") )
             => /\ last'.code = "GROUP_NOT_FOUND"
                /\ UNCHANGED <<participants, groups>>
    ]_vars

\* C25 witness: G1 was deleted after a group distribution: the group record
\* remains with its members, P1 keeps the group-scoped record and the grant
\* but not the backlink, and a later distribution to G1 was rejected
C25_Witness ==
  /\ last.op = "groupDistribute" /\ last.code = "GROUP_NOT_FOUND"
  /\ ~groups["G1"].isActive
  /\ groups["G1"].members = <<"P1", "P2">>
  /\ Len(participants["P1"].groupEntitlementHistory) = 1
  /\ participants["P1"].groupEntitlementHistory[1].groupId = "G1"
  /\ participants["P1"].customEntitlements[1].given = 1
  /\ \A k \in 1 .. Len(participants["P1"].groups) : participants["P1"].groups[k].groupId # "G1"
  /\ \E k \in 1 .. Len(participants["P1"].groups) : participants["P1"].groups[k].groupId = SquadId

(* ------------------------- membership, both ways ------------------------ *)

\* the participant holds a backlink to the group
HasBacklink(p, gid) ==
  \E k \in 1 .. Len(participants[p].groups) : participants[p].groups[k].groupId = gid

\* the group's member list names the participant
IsMember(gid, p) ==
  \E k \in 1 .. Len(groups[gid].members) : groups[gid].members[k] = p

\* C28: for every active group G and every participant P, P is in G's member
\* list exactly when P's record holds a backlink to G; this holds after every
\* add-members request (including one naming an id twice and one in which
\* saving a participant fails), remove-member and delete-group.
C28_MembershipBothWays ==
  \A gid \in DOMAIN groups : \A p \in DOMAIN participants :
    groups[gid].isActive => (IsMember(gid, p) <=> HasBacklink(p, gid))

(* --------------------- group undo and the recorded count ---------------- *)

\* the units of the entitlement a group request names that the document
\* holds: the given count of a countable entitlement, one for a boolean
\* entitlement that is given
unitsHeld(doc, entitlementType, entitlementName) ==
  IF isCustomEntitlement(entitlementType, entitlementName)
  THEN LET i == findIndexByName(doc.customEntitlements, entitlementName) IN
       IF i = 0 THEN 0 ELSE doc.customEntitlements[i].given
  ELSE IF entitlementType \notin DOMAIN doc.fixed THEN 0
  ELSE IF entitlementType = "beer" THEN doc.fixed.beer.given
  ELSE IF doc.fixed[entitlementType].given THEN 1 ELSE 0

\* C29: whenever a group undo marks a member's group record undone, the
\* units it takes from that member equal the count stored in the record; so a
\* group distribution of n followed by a group undo that omits the count
\* (the count then defaults to 1) returns the member's given to its value
\* before the distribution.
C29_GroupUndoRemovesRecordedCount ==
  [][last'.op = "groupUndo" =>
       \A rq \in SquadRequests, a \in Actors :
         ( /\ requirePermission(a, "canUndoActions")
           /\ GroupUndo(SquadId, rq[1], rq[2], rq[3], a) )
         => \A m \in Range(last'.results) :
              LET h == participants[m].groupEntitlementHistory
                  h2 == participants'[m].groupEntitlementHistory
              IN  \A k \in 1 .. Len(h) :
                    (h[k].undoneAt = 0 /\ h2[k].undoneAt # 0)
                    => unitsHeld(participants[m], rq[1], rq[2])
                         - unitsHeld(participants'[m], rq[1], rq[2]) = h[k].count
    ]_vars

(* ------------------------------ registration --------------------------- *)

\* the outcomes <<qrOk, saveOk, assignOk, emailOk>> of the code render, of
\* the save, of the save of the automatic assignment and of the delivery
Outcomes ==
  {<<TRUE, TRUE, TRUE, TRUE>>, <<TRUE, TRUE, TRUE, FALSE>>, <<TRUE, TRUE, FALSE, TRUE>>,
   <<FALSE, TRUE, TRUE, TRUE>>, <<TRUE, FALSE, TRUE, TRUE>>, <<FALSE, FALSE, TRUE, FALSE>>}

\* the uploaded sheets: no row, one row, or two rows of which the first is
\* given the identifier P3
Sheets ==
  {<<>>} \cup {<<r>> : r \in UploadRows}
    \cup {<<r, s>> : r \in {x \in UploadRows : x.cand = "P3"}, s \in UploadRows}

\* the specification of registration: single adds and imports with every
\* outcome of the external steps, and the gate marking a new participant
NextRegister ==
  \/ \E pid \in NewPids, email \in RequestEmails, sendEmail \in BOOLEAN, q \in Outcomes :
        AddParticipant(pid, email, pid = "P3", sendEmail, q[1], q[2], q[3], q[4], "admin1")
  \/ AddParticipant("P3", "new@event", TRUE, TRUE, TRUE, TRUE, TRUE, TRUE, "gate1")
  \/ \E rows \in Sheets : Upload(rows, "admin1")
  \/ Upload(<<CHOOSE r \in UploadRows : r.cand = "P3" /\ r.qrOk /\ r.saveOk /\ r.emailOk>>, "gate1")
  \/ MarkAttendance("P3", "gate1")

SpecRegister == Init /\ [][NextRegister]_vars

\* row k of the sheet reaches the creating step with a fresh identifier:
\* its input is valid and no participant, stored before or by an earlier row,
\* has its candidate identifier
RowReachesCreate(rows, k, results) ==
  /\ rows[k].email # Null
  /\ rows[k].cand \notin DOMAIN participants
  /\ \A j \in 1 .. (k - 1) : ~(results[j].success /\ rows[j].cand = rows[k].cand)

\* C27: a registration (the single add and each row of an import) stores the
\* participant exactly when the code render and the save succeed, whatever
\* the outcome of the email: a failed delivery neither prevents nor removes
\* the participant, a failed code render always prevents it, and every stored
\* participant carries the scannable code of its identifier.
C27_RegistrationNeedsCode ==
  [][/\ \A p \in DOMAIN participants :
          p \in DOMAIN participants' /\ participants'[p].qrCode = participants[p].qrCode
     /\ \A p \in DOMAIN participants' : participants'[p].qrCode = <<"QR", p>>
     /\ last'.op = "addParticipant" =>
          \A pid \in NewPids, email \in RequestEmails \ {Null},
             sendEmail \in BOOLEAN, q \in Outcomes :
            ( /\ \A p \in DOMAIN participants : participants[p].email # email
              /\ AddParticipant(pid, email, pid = "P3", sendEmail, q[1], q[2], q[3], q[4], "admin1") )
            => /\ pid \in DOMAIN participants' <=> (q[1] /\ q[2])
               /\ DOMAIN participants' \subseteq DOMAIN participants \cup {pid}
               /\ (q[1] /\ q[2]) => /\ last'.code = "OK"
                                    /\ last'.results[1].emailSent = (sendEmail /\ q[4])
     /\ last'.op = "upload" =>
          \A rows \in Sheets \ {<<>>} :
            Upload(rows, "admin1")
            => /\ Len(last'.results) = Len(rows)
               /\ \A k \in 1 .. Len(rows) :
                    /\ last'.results[k].success
                         <=> ( /\ RowReachesCreate(rows, k, last'.results)
                               /\ rows[k].qrOk /\ rows[k].saveOk )
                    /\ last'.results[k].success =>
                         /\ rows[k].cand \in DOMAIN participants'
                         /\ last'.results[k].emailWarning = ~rows[k].emailOk
               /\ DOMAIN participants' =
                    DOMAIN participants
                      \cup {rows[k].cand : k \in {j \in 1 .. Len(rows) : last'.results[j].success}}
    ]_vars

\* C27 witness: an import stored the participant of a row whose email could
\* not be delivered, with its code, and stored nothing for a row whose code
\* render failed
C27_Witness ==
  /\ last.op = "upload" /\ Len(last.results) = 2
  /\ last.results[1].success /\ last.results[1].emailWarning
  /\ ~last.results[2].success /\ last.results[2].code = "PARTICIPANT_CREATE_ERROR"
  /\ DOMAIN participants = Pids \cup {"P3"}
  /\ participants["P3"].email = "row@event"
  /\ participants["P3"].qrCode = generateQRCode("P3")

(* ------------------------- deactivated accounts ------------------------- *)

\* C30: while a staff account is deactivated, every login with its username
\* and every authenticated request made with a token of the account (also a
\* token issued before the deactivation) is rejected and changes nothing (a
\* step that is not such a rejection is no request of a deactivated account); the
\* account stays deactivated until a status update by a permitted caller
\* reactivates it; and no status update changes an account of role admin.
C30_DeactivatedIsRejected ==
  [][/\ admins' # admins =>
          \A u \in DOMAIN admins :
            /\ (~admins[u].isActive /\ admins'[u].isActive)
                 => /\ last'.op = "updateUserStatus" /\ last'.code = "OK"
                    /\ \E a \in DOMAIN admins :
                         /\ requirePermission(a, "canManageUsers")
                         /\ UpdateUserStatus(u, TRUE, a)
            /\ admins[u].role = "admin" => admins'[u] = admins[u]
     /\ last'.op = "login" =>
          \A u \in {x \in DOMAIN admins : ~admins[x].isActive}, ok \in BOOLEAN :
            Login(u, ok) => last'.code = "INVALID_OR_DEACTIVATED"
     /\ last'.op = "markAttendance" =>
          \A u \in {x \in DOMAIN admins : ~admins[x].isActive} :
            MarkAttendance("P1", u)
              => last'.code = "PERMISSION_DENIED" /\ UNCHANGED <<participants, admins>>
     /\ ( /\ last'.op = "createUser"
          /\ ~(last'.code = "PERMISSION_DENIED" /\ UNCHANGED <<participants, admins>>) )
        => \A u \in {x \in DOMAIN admins : ~admins[x].isActive},
              n \in Usernames, r \in RequestedRoles : ~CreateUser(n, r, u)
     /\ ( /\ last'.op = "updateUserStatus"
          /\ ~(last'.code = "PERMISSION_DENIED" /\ UNCHANGED <<participants, admins>>) )
        => \A u \in {x \in DOMAIN admins : ~admins[x].isActive},
              n \in Usernames, b \in BOOLEAN : ~UpdateUserStatus(n, b, u)
    ]_vars

\* C30 witness: the gate account logged in, was deactivated by the admin, and
\* its following request at the gate was rejected
C30_Witness ==
  /\ ~admins["gate1"].isActive
  /\ admins["admin1"].isActive
  /\ last.op = "markAttendance" /\ last.code = "PERMISSION_DENIED"
  /\ ~participants["P1"].isPresent
  /\ now = 1

====
